---- MODULE Spec2Model ----
(***************************************************************************)
(* A model of the IPFlare geolocation client (src/src/index.ts, the        *)
(* Result-returning class of lines 171-683): the address validator, the    *)
(* constructor, lookup, bulkLookup and the error mapping of their catch    *)
(* blocks, with the HTTP transport as the environment.                     *)
(*                                                                         *)
(* A JavaScript string is a sequence of characters, a character a          *)
(* one-character TLA+ string (NUL is written "\\0").  A JavaScript value   *)
(* is a record tagged by its type in field t.                              *)
(***************************************************************************)
EXTENDS Integers, Sequences, FiniteSets, TLC

VARIABLES client, calls

vars == <<client, calls>>

(***************************************************************************)
(* Bounds of the model.                                                    *)
(***************************************************************************)
\* longest address string enumerated exhaustively over Alphabet
MaxLen == 3
\* longest `ips` array enumerated over BulkEntries
MaxIps == 2
\* most words of a server error text enumerated over Vocabulary
MaxWords == 2
\* calls in flight at once under SpecConc
MaxCalls == 2
\* the segments of the longest dotted candidate the validator is given
MaxSegments == 5
\* the groups of the longest colon-separated candidate the validator is given
MaxGroups == 9

(***************************************************************************)
(* Characters and strings.                                                 *)
(***************************************************************************)
NUL == "\\0"

Digits == {"0","1","2","3","4","5","6","7","8","9"}

LowerLetters == <<"a","b","c","d","e","f","g","h","i","j","k","l","m","n","o","p","q","r","s","t","u","v","w","x","y","z">>

UpperLetters == <<"A","B","C","D","E","F","G","H","I","J","K","L","M","N","O","P","Q","R","S","T","U","V","W","X","Y","Z">>

Range(f) == {f[i] : i \in DOMAIN f}

\* the characters String.prototype.trim strips, among those the model uses
WhiteSpace == {" ", "\t", "\n", "\r", "\f"}

RECURSIVE trimStart(_)
trimStart(s) ==
  IF s # <<>> /\ Head(s) \in WhiteSpace THEN trimStart(Tail(s)) ELSE s

RECURSIVE trimEnd(_)
trimEnd(s) ==
  IF s # <<>> /\ s[Len(s)] \in WhiteSpace THEN trimEnd(SubSeq(s, 1, Len(s) - 1)) ELSE s

\* String.prototype.trim
trim(s) == trimEnd(trimStart(s))

\* String.prototype.includes: a case-sensitive substring search
includes(s, needle) ==
  \E i \in 0..(Len(s) - Len(needle)) : SubSeq(s, i + 1, i + Len(needle)) = needle

RECURSIVE join(_, _)
\* Array.prototype.join over an array of strings
join(a, sep) ==
  IF a = <<>> THEN <<>>
  ELSE IF Len(a) = 1 THEN a[1]
  ELSE LET h == Len(a) \div 2
       IN join(SubSeq(a, 1, h), sep) \o sep \o join(SubSeq(a, h + 1, Len(a)), sep)

(***************************************************************************)
(* JavaScript values.                                                      *)
(***************************************************************************)
Undef == [t |-> "undefined"]
Null == [t |-> "null"]
Str(s) == [t |-> "string", s |-> s]
Num(n) == [t |-> "number", n |-> n]
Bool(b) == [t |-> "boolean", b |-> b]
Arr(a) == [t |-> "array", a |-> a]
\* an object: f maps its own property names to their values
Obj(f) == [t |-> "object", f |-> f]

\* v.name for a value that is neither undefined nor null
Get(v, name) ==
  IF v.t = "object" /\ name \in DOMAIN v.f THEN v.f[name] ELSE Undef

Nullish(v) == v.t \in {"undefined", "null"}

\* v?.name
OptGet(v, name) == IF Nullish(v) THEN Undef ELSE Get(v, name)

\* ToBoolean, as `!v` and `if (v)` apply it
Truthy(v) ==
  CASE v.t = "undefined" -> FALSE
    [] v.t = "null" -> FALSE
    [] v.t = "string" -> v.s # <<>>
    [] v.t = "number" -> v.n # 0
    [] v.t = "boolean" -> v.b
    [] OTHER -> TRUE

\* the TypeError the engine throws on a property read of undefined or null
\* and on a call of something that is not a function
TypeErrorValue == Obj([name |-> Str(<<"T","y","p","e","E","r","r","o","r">>)])

(***************************************************************************)
(* Regular expressions: the patterns of lines 297-300 as syntax trees, and *)
(* RegExp.prototype.test as the set of positions a match can end at.       *)
(***************************************************************************)
Chr(cs) == [t |-> "set", cs |-> cs]
Lit(c) == [t |-> "set", cs |-> {c}]
Cat(rs) == [t |-> "cat", rs |-> rs]
Alt(rs) == [t |-> "alt", rs |-> rs]
\* r{lo,hi}
Rep(r, lo, hi) == [t |-> "rep", r |-> r, lo |-> lo, hi |-> hi]
\* r{lo,}
RepFrom(r, lo) == [t |-> "repfrom", r |-> r, lo |-> lo]
\* r?
Opt(r) == [t |-> "rep", r |-> r, lo |-> 0, hi |-> 1]

RECURSIVE Ends(_, _, _)
RECURSIVE CatEnds(_, _, _, _)
RECURSIVE RepEnds(_, _, _, _, _, _)
RECURSIVE RepFromEnds(_, _, _, _, _)

\* the positions where a match of re that starts at a position of I can end
Ends(re, s, I) ==
  CASE re.t = "set" -> {i + 1 : i \in {j \in I : j < Len(s) /\ s[j + 1] \in re.cs}}
    [] re.t = "cat" -> CatEnds(re.rs, 1, s, I)
    [] re.t = "alt" -> UNION {Ends(re.rs[k], s, I) : k \in DOMAIN re.rs}
    [] re.t = "rep" -> RepEnds(re.r, re.lo, re.hi, s, I, 0)
    [] re.t = "repfrom" -> RepFromEnds(re.r, re.lo, s, I, 0)

CatEnds(rs, k, s, I) ==
  IF k > Len(rs) \/ I = {} THEN I ELSE CatEnds(rs, k + 1, s, Ends(rs[k], s, I))

RepEnds(r, lo, hi, s, I, n) ==
  (IF n >= lo THEN I ELSE {})
    \cup (IF n < hi /\ I # {} THEN RepEnds(r, lo, hi, s, Ends(r, s, I), n + 1) ELSE {})

RepFromEnds(r, lo, s, I, n) ==
  (IF n >= lo THEN I ELSE {})
    \cup (IF I # {} /\ n <= Len(s) THEN RepFromEnds(r, lo, s, Ends(r, s, I), n + 1) ELSE {})

\* /^re$/.test(s)
test(re, s) == Len(s) \in Ends(re, s, {0})

HexDigit == Chr(Digits \cup {"a","b","c","d","e","f","A","B","C","D","E","F"})
\* [0-9a-fA-F]{1,4}
Hex14 == Rep(HexDigit, 1, 4)
\* ([0-9a-fA-F]{1,4}:)
HexColon == Cat(<<Hex14, Lit(":")>>)
\* (:[0-9a-fA-F]{1,4})
ColonHex == Cat(<<Lit(":"), Hex14>>)
D09 == Chr(Digits)
D05 == Chr({"0","1","2","3","4","5"})
D04 == Chr({"0","1","2","3","4"})

\* (?:25[0-5]|2[0-4][0-9]|[01]?[0-9][0-9]?)
V4Octet ==
  Alt(<< Cat(<<Lit("2"), Lit("5"), D05>>),
         Cat(<<Lit("2"), D04, D09>>),
         Cat(<<Opt(Chr({"0","1"})), D09, Opt(D09)>>) >>)

\* IPV4_REGEX with any one to three digits taken for an octet
IPV4_REGEX_AnyDigits ==
  Cat(<< Rep(Cat(<<Rep(D09, 1, 3), Lit(".")>>), 3, 3), Rep(D09, 1, 3) >>)


IPV4_REGEX == Cat(<< Rep(Cat(<<V4Octet, Lit(".")>>), 3, 3), V4Octet >>)

\* (25[0-5]|(2[0-4]|1{0,1}[0-9]){0,1}[0-9])
V6Octet ==
  Alt(<< Cat(<<Lit("2"), Lit("5"), D05>>),
         Cat(<< Rep(Alt(<< Cat(<<Lit("2"), D04>>),
                           Cat(<<Rep(Lit("1"), 0, 1), D09>>) >>), 0, 1),
                D09 >>) >>)

\* ((25[0-5]|...)\.){3,3}(25[0-5]|...)
V6Dotted == Cat(<< Rep(Cat(<<V6Octet, Lit(".")>>), 3, 3), V6Octet >>)

\* IPV6_REGEX without the alternative for a leading "::"
IPV6_REGEX_NoLeadingCompression ==
  Alt(<<
    \* ([0-9a-fA-F]{1,4}:){7,7}[0-9a-fA-F]{1,4}
    Cat(<<Rep(HexColon, 7, 7), Hex14>>),
    \* ([0-9a-fA-F]{1,4}:){1,7}:
    Cat(<<Rep(HexColon, 1, 7), Lit(":")>>),
    \* ([0-9a-fA-F]{1,4}:){1,6}:[0-9a-fA-F]{1,4}
    Cat(<<Rep(HexColon, 1, 6), Lit(":"), Hex14>>),
    \* ([0-9a-fA-F]{1,4}:){1,5}(:[0-9a-fA-F]{1,4}){1,2}
    Cat(<<Rep(HexColon, 1, 5), Rep(ColonHex, 1, 2)>>),
    \* ([0-9a-fA-F]{1,4}:){1,4}(:[0-9a-fA-F]{1,4}){1,3}
    Cat(<<Rep(HexColon, 1, 4), Rep(ColonHex, 1, 3)>>),
    \* ([0-9a-fA-F]{1,4}:){1,3}(:[0-9a-fA-F]{1,4}){1,4}
    Cat(<<Rep(HexColon, 1, 3), Rep(ColonHex, 1, 4)>>),
    \* ([0-9a-fA-F]{1,4}:){1,2}(:[0-9a-fA-F]{1,4}){1,5}
    Cat(<<Rep(HexColon, 1, 2), Rep(ColonHex, 1, 5)>>),
    \* [0-9a-fA-F]{1,4}:((:[0-9a-fA-F]{1,4}){1,6})
    Cat(<<Hex14, Lit(":"), Rep(ColonHex, 1, 6)>>),
    \* fe80:(:[0-9a-fA-F]{0,4}){0,4}%[0-9a-zA-Z]{1,}
    Cat(<<Lit("f"), Lit("e"), Lit("8"), Lit("0"), Lit(":"),
          Rep(Cat(<<Lit(":"), Rep(HexDigit, 0, 4)>>), 0, 4),
          Lit("%"),
          RepFrom(Chr(Digits \cup Range(LowerLetters) \cup Range(UpperLetters)), 1)>>),
    \* ::(ffff(:0{1,4}){0,1}:){0,1}((25[0-5]|...)\.){3,3}(25[0-5]|...)
    Cat(<<Lit(":"), Lit(":"),
          Rep(Cat(<<Lit("f"), Lit("f"), Lit("f"), Lit("f"),
                    Rep(Cat(<<Lit(":"), Rep(Lit("0"), 1, 4)>>), 0, 1),
                    Lit(":")>>), 0, 1),
          V6Dotted>>),
    \* ([0-9a-fA-F]{1,4}:){1,4}:((25[0-5]|...)\.){3,3}(25[0-5]|...)
    Cat(<<Rep(HexColon, 1, 4), Lit(":"), V6Dotted>>)
  >>)

IPV6_REGEX ==
  Alt(<<
    \* ([0-9a-fA-F]{1,4}:){7,7}[0-9a-fA-F]{1,4}
    Cat(<<Rep(HexColon, 7, 7), Hex14>>),
    \* ([0-9a-fA-F]{1,4}:){1,7}:
    Cat(<<Rep(HexColon, 1, 7), Lit(":")>>),
    \* ([0-9a-fA-F]{1,4}:){1,6}:[0-9a-fA-F]{1,4}
    Cat(<<Rep(HexColon, 1, 6), Lit(":"), Hex14>>),
    \* ([0-9a-fA-F]{1,4}:){1,5}(:[0-9a-fA-F]{1,4}){1,2}
    Cat(<<Rep(HexColon, 1, 5), Rep(ColonHex, 1, 2)>>),
    \* ([0-9a-fA-F]{1,4}:){1,4}(:[0-9a-fA-F]{1,4}){1,3}
    Cat(<<Rep(HexColon, 1, 4), Rep(ColonHex, 1, 3)>>),
    \* ([0-9a-fA-F]{1,4}:){1,3}(:[0-9a-fA-F]{1,4}){1,4}
    Cat(<<Rep(HexColon, 1, 3), Rep(ColonHex, 1, 4)>>),
    \* ([0-9a-fA-F]{1,4}:){1,2}(:[0-9a-fA-F]{1,4}){1,5}
    Cat(<<Rep(HexColon, 1, 2), Rep(ColonHex, 1, 5)>>),
    \* [0-9a-fA-F]{1,4}:((:[0-9a-fA-F]{1,4}){1,6})
    Cat(<<Hex14, Lit(":"), Rep(ColonHex, 1, 6)>>),
    \* :((:[0-9a-fA-F]{1,4}){1,7}|:)
    Cat(<<Lit(":"), Alt(<<Rep(ColonHex, 1, 7), Lit(":")>>)>>),
    \* fe80:(:[0-9a-fA-F]{0,4}){0,4}%[0-9a-zA-Z]{1,}
    Cat(<<Lit("f"), Lit("e"), Lit("8"), Lit("0"), Lit(":"),
          Rep(Cat(<<Lit(":"), Rep(HexDigit, 0, 4)>>), 0, 4),
          Lit("%"),
          RepFrom(Chr(Digits \cup Range(LowerLetters) \cup Range(UpperLetters)), 1)>>),
    \* ::(ffff(:0{1,4}){0,1}:){0,1}((25[0-5]|...)\.){3,3}(25[0-5]|...)
    Cat(<<Lit(":"), Lit(":"),
          Rep(Cat(<<Lit("f"), Lit("f"), Lit("f"), Lit("f"),
                    Rep(Cat(<<Lit(":"), Rep(Lit("0"), 1, 4)>>), 0, 1),
                    Lit(":")>>), 0, 1),
          V6Dotted>>),
    \* ([0-9a-fA-F]{1,4}:){1,4}:((25[0-5]|...)\.){3,3}(25[0-5]|...)
    Cat(<<Rep(HexColon, 1, 4), Lit(":"), V6Dotted>>)
  >>)

\* IPFlare.isValidIP
isValidIP(ip) == test(IPV4_REGEX, ip) \/ test(IPV6_REGEX, ip)

(***************************************************************************)
(* Results, completions and message texts.                                 *)
(***************************************************************************)
\* { ok: true, data }
Ok(data) == [ok |-> TRUE, data |-> data]
\* { ok: false, error: { type, message, details } }
Err(type, message, details) ==
  [ok |-> FALSE, error |-> [type |-> type, message |-> message, details |-> details]]
\* { ok: false, error: { type, message } }
ErrPlain(type, message) ==
  [ok |-> FALSE, error |-> [type |-> type, message |-> message]]

\* how a piece of code ends: it returns a value or throws one
Return(v) == [c |-> "return", v |-> v]
Throw(v) == [c |-> "throw", v |-> v]
\* validation found nothing wrong: the method goes on
Pass == [c |-> "pass"]

ErrorTypes ==
  {"INVALID_IP_ADDRESS", "RESERVED_IP_ADDRESS", "GEOLOCATION_NOT_FOUND",
   "INTERNAL_SERVER_ERROR", "INVALID_INPUT", "UNAUTHORIZED", "QUOTA_EXCEEDED",
   "NO_API_KEY_PROVIDED", "NETWORK_ERROR", "VALIDATION_ERROR", "UNKNOWN_ERROR"}

MsgIPRequired == <<"I","P"," ","a","d","d","r","e","s","s"," ","i","s"," ","r","e","q","u","i","r","e","d">>
MsgIPNotString == <<"I","P"," ","a","d","d","r","e","s","s"," ","m","u","s","t"," ","b","e"," ","a"," ","s","t","r","i","n","g">>
MsgInvalidFormat == <<"I","n","v","a","l","i","d"," ","I","P"," ","a","d","d","r","e","s","s"," ","f","o","r","m","a","t",":"," ">>
MsgNotArray == <<"I","P","s"," ","m","u","s","t"," ","b","e"," ","a","n"," ","a","r","r","a","y">>
MsgAtLeastOne == <<"A","t"," ","l","e","a","s","t"," ","o","n","e"," ","I","P"," ","a","d","d","r","e","s","s"," ","i","s"," ","r","e","q","u","i","r","e","d">>
MsgMaximum == <<"M","a","x","i","m","u","m"," ","o","f"," ","5","0","0"," ","I","P","s"," ","p","e","r"," ","r","e","q","u","e","s","t"," ","a","l","l","o","w","e","d">>
MsgInvalidFound == <<"I","n","v","a","l","i","d"," ","I","P"," ","a","d","d","r","e","s","s","e","s"," ","f","o","u","n","d",":"," ">>
MsgBadFormat == <<"I","n","v","a","l","i","d"," ","r","e","s","p","o","n","s","e"," ","f","o","r","m","a","t"," ","f","r","o","m"," ","A","P","I">>
MsgUnauthorized == <<"I","n","v","a","l","i","d"," ","A","P","I"," ","k","e","y">>
MsgQuota == <<"Q","u","o","t","a"," ","e","x","c","e","e","d","e","d">>
MsgInternal == <<"I","n","t","e","r","n","a","l"," ","s","e","r","v","e","r"," ","e","r","r","o","r">>
MsgNetwork == <<"N","e","t","w","o","r","k"," ","e","r","r","o","r"," ","o","c","c","u","r","r","e","d">>
MsgUnexpected == <<"A","n"," ","u","n","e","x","p","e","c","t","e","d"," ","e","r","r","o","r"," ","o","c","c","u","r","r","e","d">>
MsgKeyRequired == <<"A","P","I"," ","k","e","y"," ","i","s"," ","r","e","q","u","i","r","e","d">>
MsgKeyNotString == <<"A","P","I"," ","k","e","y"," ","m","u","s","t"," ","b","e"," ","a"," ","s","t","r","i","n","g">>
MsgKeyEmpty == <<"A","P","I"," ","k","e","y"," ","c","a","n","n","o","t"," ","b","e"," ","e","m","p","t","y">>
MsgCannotRead == <<"C","a","n","n","o","t"," ","r","e","a","d"," ","p","r","o","p","e","r","t","i","e","s"," ","o","f"," ","u","n","d","e","f","i","n","e","d">>
DefaultBaseURL == <<"h","t","t","p","s",":","/","/","a","p","i",".","i","p","f","l","a","r","e",".","i","o">>
BulkPath == <<"/","b","u","l","k","-","l","o","o","k","u","p">>

DefaultTimeout == 10000
MaxBulk == 500

DigitChars == <<"0","1","2","3","4","5","6","7","8","9">>

RECURSIVE NumberToString(_)
\* Number.prototype.toString for a natural number
NumberToString(n) ==
  IF n < 10 THEN <<DigitChars[n + 1]>>
  ELSE NumberToString(n \div 10) \o <<DigitChars[(n % 10) + 1]>>

RECURSIVE stringOf(_)
\* the string Array.prototype.join makes of an element
stringOf(v) ==
  CASE v.t = "undefined" -> <<>>
    [] v.t = "null" -> <<>>
    [] v.t = "string" -> v.s
    [] v.t = "number" -> NumberToString(v.n)
    [] v.t = "boolean" -> IF v.b THEN <<"t","r","u","e">> ELSE <<"f","a","l","s","e">>
    [] v.t = "array" -> join([i \in DOMAIN v.a |-> stringOf(v.a[i])], <<",">>)
    [] OTHER -> <<"[","o","b","j","e","c","t"," ","O","b","j","e","c","t","]">>

(***************************************************************************)
(* The constructor.                                                        *)
(***************************************************************************)
NoClient == [state |-> "none"]

\* constructor with the type of the key checked before its presence
constructorTypeFirst(options) ==
  LET apiKey == Get(options, "apiKey")
      baseURL == Get(options, "baseURL")
      timeout == Get(options, "timeout")
  IN IF Nullish(options)
       THEN [state |-> "threw", error |-> [name |-> "TypeError", message |-> MsgCannotRead]]
     ELSE IF apiKey.t # "string"
       THEN [state |-> "threw", error |-> [name |-> "TypeError", message |-> MsgKeyNotString]]
     ELSE IF ~Truthy(apiKey)
       THEN [state |-> "threw", error |-> [name |-> "Error", message |-> MsgKeyRequired]]
     ELSE IF Len(trim(apiKey.s)) = 0
       THEN [state |-> "threw", error |-> [name |-> "Error", message |-> MsgKeyEmpty]]
     ELSE [state |-> "ready",
           apiKey |-> apiKey,
           transport |->
             [baseURL |-> IF Truthy(baseURL) THEN baseURL ELSE Str(DefaultBaseURL),
              timeout |-> IF Truthy(timeout) THEN timeout ELSE Num(DefaultTimeout),
              headers |-> {<<"X-API-Key", apiKey>>,
                           <<"Content-Type", Str(<<"a","p","p","l","i","c","a","t","i","o","n","/","j","s","o","n">>)>>}]]

\* new IPFlare(options): the client it makes, or the error it throws
constructor(options) ==
  LET apiKey == Get(options, "apiKey")
      baseURL == Get(options, "baseURL")
      timeout == Get(options, "timeout")
  IN IF Nullish(options)
       \* options.apiKey read of undefined or null
       THEN [state |-> "threw", error |-> [name |-> "TypeError", message |-> MsgCannotRead]]
     ELSE IF ~Truthy(apiKey)
       THEN [state |-> "threw", error |-> [name |-> "Error", message |-> MsgKeyRequired]]
     ELSE IF apiKey.t # "string"
       THEN [state |-> "threw", error |-> [name |-> "TypeError", message |-> MsgKeyNotString]]
     ELSE IF Len(trim(apiKey.s)) = 0
       THEN [state |-> "threw", error |-> [name |-> "Error", message |-> MsgKeyEmpty]]
     ELSE [state |-> "ready",
           apiKey |-> apiKey,
           \* axios.create(config): the transport handle
           transport |->
             [baseURL |-> IF Truthy(baseURL) THEN baseURL ELSE Str(DefaultBaseURL),
              timeout |-> IF Truthy(timeout) THEN timeout ELSE Num(DefaultTimeout),
              headers |-> {<<"X-API-Key", apiKey>>,
                           <<"Content-Type", Str(<<"a","p","p","l","i","c","a","t","i","o","n","/","j","s","o","n">>)>>}]]

(***************************************************************************)
(* Validation and request construction.                                    *)
(***************************************************************************)
\* ip.includes("\n") || ip.includes("\r") || ip.includes("\t") || ip.includes("\0")
hasControlChars(ip) ==
  \/ includes(ip, <<"\n">>)
  \/ includes(ip, <<"\r">>)
  \/ includes(ip, <<"\t">>)
  \/ includes(ip, <<NUL>>)

\* lookupValidate without the control-character check on the untrimmed input
lookupValidateNoControl(ip) ==
  IF ~Truthy(ip)
    THEN Return(ErrPlain("INVALID_INPUT", Str(MsgIPRequired)))
  ELSE IF ip.t # "string"
    THEN Return(ErrPlain("INVALID_INPUT", Str(MsgIPNotString)))
  ELSE IF ~isValidIP(trim(ip.s))
    THEN Return(ErrPlain("INVALID_IP_ADDRESS", Str(MsgInvalidFormat \o ip.s)))
  ELSE Pass

\* lookupValidate with the trimmed input echoed in the validator's message
lookupValidateTrimmedMessage(ip) ==
  IF ~Truthy(ip)
    THEN Return(ErrPlain("INVALID_INPUT", Str(MsgIPRequired)))
  ELSE IF ip.t # "string"
    THEN Return(ErrPlain("INVALID_INPUT", Str(MsgIPNotString)))
  ELSE IF hasControlChars(ip.s)
    THEN Return(ErrPlain("INVALID_IP_ADDRESS", Str(MsgInvalidFormat \o ip.s)))
  ELSE IF ~isValidIP(trim(ip.s))
    THEN Return(ErrPlain("INVALID_IP_ADDRESS", Str(MsgInvalidFormat \o trim(ip.s))))
  ELSE Pass

\* lookupValidate with the type check moved before the emptiness check
lookupValidateTypeFirst(ip) ==
  IF ip.t # "string"
    THEN Return(ErrPlain("INVALID_INPUT", Str(MsgIPNotString)))
  ELSE IF ~Truthy(ip)
    THEN Return(ErrPlain("INVALID_INPUT", Str(MsgIPRequired)))
  ELSE IF hasControlChars(ip.s) \/ ~isValidIP(trim(ip.s))
    THEN Return(ErrPlain("INVALID_IP_ADDRESS", Str(MsgInvalidFormat \o ip.s)))
  ELSE Pass

\* the validation checks of lookup: the error Result returned, or Pass
lookupValidate(ip) ==
  IF ~Truthy(ip)
    THEN Return(ErrPlain("INVALID_INPUT", Str(MsgIPRequired)))
  ELSE IF ip.t # "string"
    THEN Return(ErrPlain("INVALID_INPUT", Str(MsgIPNotString)))
  ELSE LET trimmedIP == trim(ip.s)
       IN IF hasControlChars(ip.s)
            THEN Return(ErrPlain("INVALID_IP_ADDRESS", Str(MsgInvalidFormat \o ip.s)))
          ELSE IF ~isValidIP(trimmedIP)
            THEN Return(ErrPlain("INVALID_IP_ADDRESS", Str(MsgInvalidFormat \o ip.s)))
          ELSE Pass

\* buildParams with the flags pushed in the order isp, asn
buildParamsIspFirst(include) ==
  LET fields == (IF Truthy(OptGet(include, "isp")) THEN <<<<"i","s","p">>>> ELSE <<>>)
                  \o (IF Truthy(OptGet(include, "asn")) THEN <<<<"a","s","n">>>> ELSE <<>>)
  IN IF Len(fields) > 0 THEN {<<"fields", join(fields, <<",">>)>>} ELSE {}

\* the query parameters built from `include`: fields.push, fields.join(",")
buildParams(include) ==
  LET fields == (IF Truthy(OptGet(include, "asn")) THEN <<<<"a","s","n">>>> ELSE <<>>)
                  \o (IF Truthy(OptGet(include, "isp")) THEN <<<<"i","s","p">>>> ELSE <<>>)
  IN IF Len(fields) > 0 THEN {<<"fields", join(fields, <<",">>)>>} ELSE {}

NoRequest == [method |-> "none"]

\* lookupRequest with the input put in the path as it was given
lookupRequestUntrimmed(ip, options) ==
  [method |-> "GET", url |-> <<"/">> \o ip.s, params |-> buildParams(Get(options, "include"))]

\* this.client.get(`/${trimmedIP}`, { params })
lookupRequest(ip, options) ==
  [method |-> "GET", url |-> <<"/">> \o trim(ip.s), params |-> buildParams(Get(options, "include"))]

\* invalidIPs with the control-character test left out of the filter
invalidIPsNoControl(ips) ==
  SelectSeq(ips, LAMBDA ip :
    IF ip.t # "string" THEN TRUE ELSE ~isValidIP(trim(ip.s)))

\* invalidIPs with an entry kept only the first time it occurs
invalidIPsDistinct(ips) ==
  LET kept == {i \in DOMAIN ips :
                 /\ IF ips[i].t # "string" THEN TRUE
                    ELSE hasControlChars(ips[i].s) \/ ~isValidIP(trim(ips[i].s))
                 /\ \A j \in 1..(i - 1) : ips[j] # ips[i]}
      pick[i \in 0..Len(ips)] ==
        IF i = 0 THEN <<>>
        ELSE IF i \in kept THEN Append(pick[i - 1], ips[i]) ELSE pick[i - 1]
  IN pick[Len(ips)]

\* the entries of `ips` the filter keeps as invalid
invalidIPs(ips) ==
  SelectSeq(ips, LAMBDA ip :
    IF ip.t # "string" THEN TRUE
    ELSE hasControlChars(ip.s) \/ ~isValidIP(trim(ip.s)))

\* bulkValidate with the entries validated before the array's length is checked
bulkValidateEntriesFirst(ips) ==
  IF ips.t # "array"
    THEN Return(ErrPlain("INVALID_INPUT", Str(MsgNotArray)))
  ELSE IF Len(ips.a) = 0
    THEN Return(ErrPlain("INVALID_INPUT", Str(MsgAtLeastOne)))
  ELSE LET invalid == invalidIPs(ips.a)
       IN IF Len(invalid) > 0
            THEN Return(Err("INVALID_IP_ADDRESS",
                            Str(MsgInvalidFound
                                  \o join([i \in DOMAIN invalid |-> stringOf(invalid[i])],
                                          <<",", " ">>)),
                            Obj([invalidIPs |-> Arr(invalid)])))
          ELSE IF Len(ips.a) > MaxBulk
            THEN Return(ErrPlain("INVALID_INPUT", Str(MsgMaximum)))
          ELSE Pass

\* the validation checks of bulkLookup: the error Result returned, or Pass
bulkValidate(ips) ==
  IF ips.t # "array"
    THEN Return(ErrPlain("INVALID_INPUT", Str(MsgNotArray)))
  ELSE IF Len(ips.a) = 0
    THEN Return(ErrPlain("INVALID_INPUT", Str(MsgAtLeastOne)))
  ELSE IF Len(ips.a) > MaxBulk
    THEN Return(ErrPlain("INVALID_INPUT", Str(MsgMaximum)))
  ELSE LET invalid == invalidIPs(ips.a)
       IN IF Len(invalid) > 0
            THEN Return(Err("INVALID_IP_ADDRESS",
                            Str(MsgInvalidFound
                                  \o join([i \in DOMAIN invalid |-> stringOf(invalid[i])],
                                          <<",", " ">>)),
                            Obj([invalidIPs |-> Arr(invalid)])))
            ELSE Pass

\* bulkRequest with an address sent only the first time it occurs
bulkRequestDistinct(ips, include) ==
  LET trimmedIPs == [i \in DOMAIN ips.a |-> Str(trim(ips.a[i].s))]
      pick[i \in 0..Len(trimmedIPs)] ==
        IF i = 0 THEN <<>>
        ELSE IF \E j \in 1..(i - 1) : trimmedIPs[j] = trimmedIPs[i] THEN pick[i - 1]
        ELSE Append(pick[i - 1], trimmedIPs[i])
  IN [method |-> "POST", url |-> BulkPath, params |-> buildParams(include),
      body |-> Obj([ips |-> Arr(pick[Len(trimmedIPs)])])]

\* bulkRequest with the entries sent as they were given
bulkRequestUntrimmed(ips, include) ==
  [method |-> "POST", url |-> BulkPath, params |-> buildParams(include),
   body |-> Obj([ips |-> Arr(ips.a)])]

\* this.client.post("/bulk-lookup", { ips: trimmedIPs }, { params })
bulkRequest(ips, include) ==
  [method |-> "POST", url |-> BulkPath, params |-> buildParams(include),
   body |-> Obj([ips |-> Arr([i \in DOMAIN ips.a |-> Str(trim(ips.a[i].s))])])]

(***************************************************************************)
(* The error mapping of the two catch blocks.                              *)
(***************************************************************************)
\* isAxiosError taken to hold of any failure that carries a response
isAxiosErrorByResponse(error) ==
  error.t = "object" /\ ~Nullish(Get(error, "response"))

\* axios.isAxiosError(payload): an object whose isAxiosError is true
isAxiosError(error) == error.t = "object" /\ Get(error, "isAxiosError") = Bool(TRUE)

\* apiError.includes(word) for a string or an array; nothing else has the method
valueIncludes(v, word) ==
  IF v.t = "string" THEN includes(v.s, word)
  ELSE \E i \in DOMAIN v.a : v.a[i] = Str(word)

hasIncludes(v) == v.t \in {"string", "array"}

\* lookupErrorType with the "input" test moved before the "api key" test
lookupErrorTypeInputFirst(apiError) ==
  IF valueIncludes(apiError, <<"i","n","v","a","l","i","d">>) /\ valueIncludes(apiError, <<"i","p">>)
    THEN "INVALID_IP_ADDRESS"
  ELSE IF valueIncludes(apiError, <<"r","e","s","e","r","v","e","d">>)
    THEN "RESERVED_IP_ADDRESS"
  ELSE IF valueIncludes(apiError, <<"g","e","o","l","o","c","a","t","i","o","n">>) \/ valueIncludes(apiError, <<"n","o","t"," ","f","o","u","n","d">>)
    THEN "GEOLOCATION_NOT_FOUND"
  ELSE IF valueIncludes(apiError, <<"i","n","p","u","t">>)
    THEN "INVALID_INPUT"
  ELSE IF valueIncludes(apiError, <<"a","p","i"," ","k","e","y">>)
    THEN "NO_API_KEY_PROVIDED"
  ELSE "UNKNOWN_ERROR"

\* the if / else-if chain of lookup's catch that picks errorType
lookupErrorType(apiError) ==
  IF valueIncludes(apiError, <<"i","n","v","a","l","i","d">>) /\ valueIncludes(apiError, <<"i","p">>)
    THEN "INVALID_IP_ADDRESS"
  ELSE IF valueIncludes(apiError, <<"r","e","s","e","r","v","e","d">>)
    THEN "RESERVED_IP_ADDRESS"
  ELSE IF valueIncludes(apiError, <<"g","e","o","l","o","c","a","t","i","o","n">>) \/ valueIncludes(apiError, <<"n","o","t"," ","f","o","u","n","d">>)
    THEN "GEOLOCATION_NOT_FOUND"
  ELSE IF valueIncludes(apiError, <<"a","p","i"," ","k","e","y">>)
    THEN "NO_API_KEY_PROVIDED"
  ELSE IF valueIncludes(apiError, <<"i","n","p","u","t">>)
    THEN "INVALID_INPUT"
  ELSE "UNKNOWN_ERROR"

\* lookupCatch with a canned message for a text no rule matches
lookupCatchCannedUnknown(error) ==
  IF isAxiosError(error)
    THEN LET response == Get(error, "response")
             status == OptGet(response, "status")
             data == OptGet(response, "data")
             apiError == OptGet(data, "error")
         IN IF status = Num(401)
              THEN Return(Err("UNAUTHORIZED", Str(MsgUnauthorized), data))
            ELSE IF status = Num(429)
              THEN Return(Err("QUOTA_EXCEEDED", Str(MsgQuota), data))
            ELSE IF status = Num(500)
              THEN Return(Err("INTERNAL_SERVER_ERROR", Str(MsgInternal), data))
            ELSE IF Truthy(apiError)
              THEN IF hasIncludes(apiError)
                     THEN IF lookupErrorType(apiError) = "UNKNOWN_ERROR"
                            THEN Return(Err("UNKNOWN_ERROR", Str(MsgUnexpected), data))
                            ELSE Return(Err(lookupErrorType(apiError), apiError, data))
                     ELSE Throw(TypeErrorValue)
            ELSE Return(Err("NETWORK_ERROR", Str(MsgNetwork),
                            Obj([status |-> status,
                                 statusText |-> OptGet(response, "statusText")])))
    ELSE Return(Err("UNKNOWN_ERROR", Str(MsgUnexpected), error))

\* the catch block of lookup, run on the caught value
lookupCatch(error) ==
  IF isAxiosError(error)
    THEN LET response == Get(error, "response")
             status == OptGet(response, "status")
             data == OptGet(response, "data")
             apiError == OptGet(data, "error")
         IN IF status = Num(401)
              THEN Return(Err("UNAUTHORIZED", Str(MsgUnauthorized), data))
            ELSE IF status = Num(429)
              THEN Return(Err("QUOTA_EXCEEDED", Str(MsgQuota), data))
            ELSE IF status = Num(500)
              THEN Return(Err("INTERNAL_SERVER_ERROR", Str(MsgInternal), data))
            ELSE IF Truthy(apiError)
              THEN IF hasIncludes(apiError)
                     THEN Return(Err(lookupErrorType(apiError), apiError, data))
                     ELSE Throw(TypeErrorValue)
            ELSE Return(Err("NETWORK_ERROR", Str(MsgNetwork),
                            Obj([status |-> status,
                                 statusText |-> OptGet(response, "statusText")])))
    ELSE Return(Err("UNKNOWN_ERROR", Str(MsgUnexpected), error))

\* bulkErrorType without the "not found" test of its third rule
bulkErrorTypeNoNotFound(apiError) ==
  IF valueIncludes(apiError, <<"i","n","v","a","l","i","d">>) /\ valueIncludes(apiError, <<"i","p">>)
    THEN "INVALID_IP_ADDRESS"
  ELSE IF valueIncludes(apiError, <<"r","e","s","e","r","v","e","d">>)
    THEN "RESERVED_IP_ADDRESS"
  ELSE IF valueIncludes(apiError, <<"g","e","o","l","o","c","a","t","i","o","n">>)
    THEN "GEOLOCATION_NOT_FOUND"
  ELSE IF valueIncludes(apiError, <<"a","p","i"," ","k","e","y">>)
    THEN "NO_API_KEY_PROVIDED"
  ELSE IF valueIncludes(apiError, <<"i","n","p","u","t">>)
    THEN "INVALID_INPUT"
  ELSE "UNKNOWN_ERROR"


\* the if / else-if chain of bulkLookup's catch that picks errorType
bulkErrorType(apiError) ==
  IF valueIncludes(apiError, <<"i","n","v","a","l","i","d">>) /\ valueIncludes(apiError, <<"i","p">>)
    THEN "INVALID_IP_ADDRESS"
  ELSE IF valueIncludes(apiError, <<"r","e","s","e","r","v","e","d">>)
    THEN "RESERVED_IP_ADDRESS"
  ELSE IF valueIncludes(apiError, <<"g","e","o","l","o","c","a","t","i","o","n">>) \/ valueIncludes(apiError, <<"n","o","t"," ","f","o","u","n","d">>)
    THEN "GEOLOCATION_NOT_FOUND"
  ELSE IF valueIncludes(apiError, <<"a","p","i"," ","k","e","y">>)
    THEN "NO_API_KEY_PROVIDED"
  ELSE IF valueIncludes(apiError, <<"i","n","p","u","t">>)
    THEN "INVALID_INPUT"
  ELSE "UNKNOWN_ERROR"

\* bulkCatch with the free-text classification tried before the status codes
bulkCatchTextFirst(error) ==
  IF isAxiosError(error)
    THEN LET response == Get(error, "response")
             status == OptGet(response, "status")
             data == OptGet(response, "data")
             apiError == OptGet(data, "error")
         IN IF Truthy(apiError)
              THEN IF hasIncludes(apiError)
                     THEN Return(Err(bulkErrorType(apiError), apiError, data))
                     ELSE Throw(TypeErrorValue)
            ELSE IF status = Num(401)
              THEN Return(Err("UNAUTHORIZED", Str(MsgUnauthorized), data))
            ELSE IF status = Num(429)
              THEN Return(Err("QUOTA_EXCEEDED", Str(MsgQuota), data))
            ELSE IF status = Num(500)
              THEN Return(Err("INTERNAL_SERVER_ERROR", Str(MsgInternal), data))
            ELSE Return(Err("NETWORK_ERROR", Str(MsgNetwork),
                            Obj([status |-> status,
                                 statusText |-> OptGet(response, "statusText")])))
    ELSE Return(Err("UNKNOWN_ERROR", Str(MsgUnexpected), error))

\* the catch block of bulkLookup, run on the caught value
bulkCatch(error) ==
  IF isAxiosError(error)
    THEN LET response == Get(error, "response")
             status == OptGet(response, "status")
             data == OptGet(response, "data")
             apiError == OptGet(data, "error")
         IN IF status = Num(401)
              THEN Return(Err("UNAUTHORIZED", Str(MsgUnauthorized), data))
            ELSE IF status = Num(429)
              THEN Return(Err("QUOTA_EXCEEDED", Str(MsgQuota), data))
            ELSE IF status = Num(500)
              THEN Return(Err("INTERNAL_SERVER_ERROR", Str(MsgInternal), data))
            ELSE IF Truthy(apiError)
              THEN IF hasIncludes(apiError)
                     THEN Return(Err(bulkErrorType(apiError), apiError, data))
                     ELSE Throw(TypeErrorValue)
            ELSE Return(Err("NETWORK_ERROR", Str(MsgNetwork),
                            Obj([status |-> status,
                                 statusText |-> OptGet(response, "statusText")])))
    ELSE Return(Err("UNKNOWN_ERROR", Str(MsgUnexpected), error))

\* lookup resumed with the transport's response
lookupSuccess(response) ==
  IF Nullish(response) THEN lookupCatch(TypeErrorValue)
  ELSE Return(Ok(Get(response, "data")))

\* bulkSuccess with the items of status "error" dropped from the data
bulkSuccessWithoutErrors(response) ==
  IF Nullish(response) \/ Nullish(Get(response, "data"))
    THEN bulkCatch(TypeErrorValue)
  ELSE LET data == Get(response, "data")
           results == Get(data, "results")
       IN IF ~Truthy(results) \/ results.t # "array"
            THEN Return(Err("INTERNAL_SERVER_ERROR", Str(MsgBadFormat), data))
            ELSE Return(Ok(Arr(SelectSeq(results.a,
                                         LAMBDA item : Get(item, "status") # Str(<<"e","r","r","o","r">>)))))

\* bulkLookup resumed with the transport's response
bulkSuccess(response) ==
  IF Nullish(response) \/ Nullish(Get(response, "data"))
    THEN bulkCatch(TypeErrorValue)
  ELSE LET data == Get(response, "data")
           results == Get(data, "results")
       IN IF ~Truthy(results) \/ results.t # "array"
            THEN Return(Err("INTERNAL_SERVER_ERROR", Str(MsgBadFormat), data))
            ELSE Return(Ok(results))

(***************************************************************************)
(* The two methods up to their await, and their resumption.                *)
(***************************************************************************)
NoOutcome == [kind |-> "none"]
NoResult == [c |-> "none"]
\* the transport's promise fulfilled with a response, or rejected with a value
Resolved(response) == [kind |-> "resolve", value |-> response]
Rejected(error) == [kind |-> "reject", value |-> error]

Done(completion) == [next |-> "done", completion |-> completion]
Await(request) == [next |-> "await", request |-> request]

\* lookup(ip, options) up to its await: the completion of the call, or the
\* request it sends
lookupStart(ip, options) ==
  LET checked == lookupValidate(ip)
      \* the default parameter: options = {}
      opts == IF options.t = "undefined" THEN Obj([include |-> Undef]) ELSE options
  IN IF checked.c # "pass" THEN Done(checked)
     \* options.include read of null, inside the try block
     ELSE IF Nullish(opts) THEN Done(lookupCatch(TypeErrorValue))
     ELSE Await(lookupRequest(ip, opts))

\* bulkLookup(options) up to its await
bulkStart(options) ==
  \* const { ips, include } = options, outside the try block
  IF Nullish(options) THEN Done(Throw(TypeErrorValue))
  ELSE LET ips == Get(options, "ips")
           include == Get(options, "include")
           checked == bulkValidate(ips)
       IN IF checked.c # "pass" THEN Done(checked)
          ELSE Await(bulkRequest(ips, include))

\* the method resumed after its await with the transport's outcome
lookupResume(outcome) ==
  IF outcome.kind = "resolve" THEN lookupSuccess(outcome.value)
  ELSE lookupCatch(outcome.value)

bulkResume(outcome) ==
  IF outcome.kind = "resolve" THEN bulkSuccess(outcome.value)
  ELSE bulkCatch(outcome.value)

\* the state of the promise a completion settles
SettledAs(completion) == IF completion.c = "throw" THEN "rejected" ELSE "fulfilled"

IdleCall ==
  [pc |-> "idle", op |-> "none", args |-> <<>>, sent |-> 0,
   request |-> NoRequest, outcome |-> NoOutcome, result |-> NoResult]

\* the call after the synchronous part of its method has run
Started(op, args, st) ==
  IF st.next = "await"
    THEN [pc |-> "awaiting", op |-> op, args |-> args, sent |-> 1,
          request |-> st.request, outcome |-> NoOutcome, result |-> NoResult]
    ELSE [pc |-> SettledAs(st.completion), op |-> op, args |-> args, sent |-> 0,
          request |-> NoRequest, outcome |-> NoOutcome, result |-> st.completion]

(***************************************************************************)
(* The inputs the environment draws from.                                  *)
(***************************************************************************)
Alphabet == {":", "1", "g", " ", "\n", "\f", NUL}

RECURSIVE StringsUpTo(_)
StringsUpTo(n) ==
  IF n = 0 THEN {<<>>}
  ELSE LET S == StringsUpTo(n - 1) IN S \cup {Append(s, c) : s \in S, c \in Alphabet}

AddressLiterals ==
  { <<"8",".","8",".","8",".","8">>, <<" "," ","8",".","8",".","8",".","8"," "," ">>, <<"1","7","8",".","2","3","8",".","1","1",".","6">>, <<"2","5","5",".","2","5","5",".","2","5","5",".","2","5","5">>,
    <<"9","9","9",".","9","9","9",".","9","9","9",".","9","9","9">>, <<"2","5","6",".","1",".","1",".","1">>, <<"1",".","1",".","1">>, <<"1",".","1",".","1",".","1",".","1">>,
    <<"8",".","8",".","8",".","8","\n">>, <<"\t","8",".","8",".","8",".","8">>, <<"8",".","8",".","8",".","8","\r">>, <<"8",".","8",NUL,".","8",".","8">>, <<"8",".","8",".","8",".","8","">>,
    <<":",":","f","f","f","f",":","1","9","2",".","0",".","2",".","1">>, <<"2","0","0","1",":","d","b","8",":",":","f","f","0","0",":","4","2",":","8","3","2","9">>, <<"f","e","8","0",":",":","1","%","e","t","h","0">>,
    <<"g","g","g","g",":",":","1">>, <<":",":",":","1">>, <<"2","0","0","1",":","d","b","8",":",":","f","f","0","0",":",":","4","2",":","8","3","2","9">>, <<"1",":","2",":","3",":","4",":","5",":","6",":","7",":","8",":","9">> }

NonStrings ==
  { Undef, Null, Num(0), Num(123), Bool(FALSE), Bool(TRUE),
    Arr(<<Str(<<"8",".","8",".","8",".","8">>)>>), Obj([ip |-> Str(<<"8",".","8",".","8",".","8">>)]) }

LookupInputs == {Str(s) : s \in StringsUpTo(MaxLen) \cup AddressLiterals} \cup NonStrings

Includes ==
  { Undef, Null,
    Obj([asn |-> Bool(TRUE)]), Obj([isp |-> Bool(TRUE)]),
    Obj([asn |-> Bool(TRUE), isp |-> Bool(TRUE)]),
    Obj([asn |-> Bool(FALSE), isp |-> Bool(FALSE)]) }

LookupOptions == {Undef, Null} \cup {Obj([include |-> i]) : i \in Includes}

BulkEntries ==
  { Str(<<"1",".","1",".","1",".","1">>), Str(<<" ",":",":","1"," ">>), Str(<<"b","a","d">>), Str(<<"2",".","2",".","2",".","2","\n">>),
    Str(<<>>), Num(123), Null }

RECURSIVE ArraysUpTo(_)
ArraysUpTo(n) ==
  IF n = 0 THEN {<<>>}
  ELSE LET S == ArraysUpTo(n - 1) IN S \cup {Append(a, e) : a \in S, e \in BulkEntries}

\* Array(n).fill(e)
Fill(n, e) == [i \in 1..n |-> e]

IpsValues ==
  {Arr(a) : a \in ArraysUpTo(MaxIps)}
    \cup {Arr(Fill(MaxBulk, Str(<<"1",".","1",".","1",".","1">>))), Arr(Fill(MaxBulk + 1, Str(<<"1",".","1",".","1",".","1">>))),
          Arr(Fill(MaxBulk + 1, Str(<<"b","a","d">>)))}
    \cup {Undef, Null, Str(<<"1",".","1",".","1",".","1">>)}

BulkOptions ==
  {Undef, Null}
    \cup {Obj([ips |-> ips, include |-> i]) : ips \in IpsValues,
                                              i \in {Undef, Obj([asn |-> Bool(TRUE), isp |-> Bool(TRUE)])}}
    \cup {Obj([ips |-> Arr(<<Str(<<"1",".","1",".","1",".","1">>), Str(<<" ",":",":","1"," ">>)>>), include |-> i]) : i \in Includes}

CtorOptions ==
  { Undef,
    Obj([apiKey |-> Str(<<"t","e","s","t","-","a","p","i","-","k","e","y">>)]),
    Obj([apiKey |-> Str(<<"t","e","s","t","-","a","p","i","-","k","e","y">>), baseURL |-> Str(<<"h","t","t","p","s",":","/","/","c","u","s","t","o","m",".","a","p","i",".","c","o","m">>),
         timeout |-> Num(5000)]),
    Obj([baseURL |-> Str(<<"h","t","t","p","s",":","/","/","c","u","s","t","o","m",".","a","p","i",".","c","o","m">>)]),
    Obj([apiKey |-> Str(<<>>)]),
    Obj([apiKey |-> Str(<<" "," "," ">>)]),
    Obj([apiKey |-> Num(123)]),
    Obj([apiKey |-> Null]),
    Obj([apiKey |-> Num(0)]),
    Obj([apiKey |-> Bool(FALSE)]),
    Obj([apiKey |-> Bool(TRUE)]),
    Obj([apiKey |-> Str(<<"\t", " ", "\n">>)]),
    Obj([apiKey |-> Str(<<" ","k","e","y"," ">>)]),
    Obj([apiKey |-> Arr(<<Str(<<"k","e","y">>)>>)]) }

GeoRecord ==
  Obj([ip |-> Str(<<"1","7","8",".","2","3","8",".","1","1",".","6">>), city |-> Str(<<"M","o","u","n","t","a","i","n"," ","V","i","e","w">>),
       in_eu |-> Bool(FALSE), land_locked |-> Bool(FALSE)])

ItemSuccess == Obj([ip |-> Str(<<"1",".","1",".","1",".","1">>), status |-> Str(<<"s","u","c","c","e","s","s">>), data |-> GeoRecord])
ItemError ==
  Obj([ip |-> Str(<<"b","a","d">>), status |-> Str(<<"e","r","r","o","r">>), error_message |-> Str(<<"I","n","v","a","l","i","d"," ","I","P"," ","a","d","d","r","e","s","s">>)])

\* response bodies of a 2xx response
Bodies ==
  { GeoRecord, Undef, Null, Str(<<>>),
    Obj([results |-> Arr(<<ItemSuccess, ItemError>>)]),
    Obj([results |-> Arr(<<ItemError, ItemSuccess, ItemSuccess>>)]),
    Obj([results |-> Arr(<<>>)]),
    Obj([results |-> Str(<<"n","o","n","e">>)]),
    Obj([results |-> Null]),
    Obj([notResults |-> Arr(<<>>)]) }

Responses == {Obj([status |-> Num(200), data |-> d]) : d \in Bodies}

Vocabulary ==
  << <<"i","n","v","a","l","i","d">>, <<"i","p">>, <<"r","e","s","e","r","v","e","d">>, <<"g","e","o","l","o","c","a","t","i","o","n">>, <<"n","o","t"," ","f","o","u","n","d">>, <<"a","p","i"," ","k","e","y">>,
     <<"i","n","p","u","t">>, <<"I","n","v","a","l","i","d">>, <<"I","P">>, <<"R","e","s","e","r","v","e","d">>, <<"e","r","r","o","r">> >>

RECURSIVE TextsUpTo(_)
\* the texts of at most n words of Vocabulary, separated by spaces
TextsUpTo(n) ==
  IF n = 0 THEN {<<>>}
  ELSE LET T == TextsUpTo(n - 1)
       IN T \cup {(IF t = <<>> THEN t ELSE t \o <<" ">>) \o Vocabulary[k] :
                    t \in T, k \in DOMAIN Vocabulary}

\* the `error` values of an error body that are not texts
NonTexts ==
  { Null, Num(0), Num(5), Bool(TRUE), Obj([code |-> Num(5), message |-> Str(<<"r","e","s","e","r","v","e","d">>)]),
    Arr(<<Str(<<"i","n","v","a","l","i","d">>), Str(<<"i","p">>)>>) }

ErrorBodies(texts) ==
  {Undef, Null, Str(<<"<","h","t","m","l",">","B","a","d"," ","G","a","t","e","w","a","y","<","/","h","t","m","l",">">>), Obj([message |-> Str(<<"r","e","s","e","r","v","e","d">>)])}
    \cup {Obj([error |-> e]) : e \in NonTexts \cup {Str(t) : t \in texts}}

StatusTextOf(status) == IF status = Num(404) THEN Str(<<"N","o","t"," ","F","o","u","n","d">>) ELSE Undef

ErrorResponses(statuses, texts) ==
  {Obj([status |-> s, statusText |-> StatusTextOf(s), data |-> d]) :
     s \in statuses, d \in ErrorBodies(texts)}

\* the values the transport's promise can reject with
Failures(statuses, texts) ==
  {Obj([isAxiosError |-> Bool(a), response |-> r]) :
     a \in BOOLEAN, r \in {Undef} \cup ErrorResponses(statuses, texts)}
    \cup {Null, Str(<<"b","o","o","m">>)}

AllStatuses == {Undef, Num(400), Num(401), Num(404), Num(429), Num(500)}

\* the outcomes drawn under Spec, where the inputs vary
FewOutcomes ==
  {Resolved(r) : r \in Responses}
    \cup {Rejected(e) : e \in Failures({Num(400), Num(401)}, {<<"r","e","s","e","r","v","e","d"," ","i","p"," ","a","d","d","r","e","s","s">>})}

\* the outcomes drawn under SpecMap, where the failures vary
ManyFailures == {Rejected(e) : e \in Failures(AllStatuses, TextsUpTo(MaxWords))}

(***************************************************************************)
(* The state machine.                                                      *)
(***************************************************************************)
CallIds == 1..MaxCalls

Init ==
  /\ client = NoClient
  /\ calls = [id \in CallIds |-> IdleCall]

\* the outcome of `new IPFlare(options)`, kept with the options it was given
Constructed(options) ==
  LET made == constructor(options)
  IN IF made.state = "threw"
       THEN [state |-> "threw", options |-> options, error |-> made.error]
       ELSE [state |-> "ready", options |-> options,
             apiKey |-> made.apiKey, transport |-> made.transport]

\* new IPFlare(options), for some options of the set
new(optionSet) ==
  /\ client.state = "none"
  /\ \E options \in optionSet : client' = Constructed(options)
  /\ UNCHANGED calls

\* client.lookup(ip, options), up to its await or its return, for some
\* arguments of the sets
lookup(id, ipSet, optionSet) ==
  /\ client.state = "ready"
  /\ calls[id].pc = "idle"
  /\ \E ip \in ipSet, options \in optionSet :
       calls' = [calls EXCEPT ![id] =
                   Started("lookup", <<ip, options>>, lookupStart(ip, options))]
  /\ UNCHANGED client

\* bulkLookup with the transport's timeout raised for the batch
bulkLookupRaisingTimeout(id, optionSet) ==
  /\ client.state = "ready"
  /\ calls[id].pc = "idle"
  /\ \E options \in optionSet :
       calls' = [calls EXCEPT ![id] =
                   Started("bulkLookup", <<options>>, bulkStart(options))]
  /\ client' = [client EXCEPT !.transport.timeout = Num(3 * DefaultTimeout)]


\* client.bulkLookup(options), up to its await or its return
bulkLookup(id, optionSet) ==
  /\ client.state = "ready"
  /\ calls[id].pc = "idle"
  /\ \E options \in optionSet :
       calls' = [calls EXCEPT ![id] =
                   Started("bulkLookup", <<options>>, bulkStart(options))]
  /\ UNCHANGED client

\* the method of call id resumed with the transport's outcome
resume(call, outcome) ==
  IF call.op = "lookup" THEN lookupResume(outcome) ELSE bulkResume(outcome)

\* settle with the method resumed being that of the call in the first slot
settleAsFirst(id, outcomeSet) ==
  /\ calls[id].pc = "awaiting"
  /\ \E outcome \in outcomeSet :
       calls' = [calls EXCEPT ![id] =
                   [@ EXCEPT !.pc = SettledAs(resume(calls[1], outcome)),
                             !.outcome = outcome,
                             !.result = resume(calls[1], outcome)]]
  /\ UNCHANGED client


\* settle with the request issued again when the transport rejects it
settleRetrying(id, outcomeSet) ==
  /\ calls[id].pc = "awaiting"
  /\ \E outcome \in outcomeSet :
       calls' = [calls EXCEPT ![id] =
                   IF outcome.kind = "reject" /\ calls[id].sent < 2
                     THEN [calls[id] EXCEPT !.sent = calls[id].sent + 1]
                     ELSE [calls[id] EXCEPT !.pc = SettledAs(resume(calls[id], outcome)),
                                            !.outcome = outcome,
                                            !.result = resume(calls[id], outcome)]]
  /\ UNCHANGED client

\* the transport settles the request of call id, and the method runs to its end
settle(id, outcomeSet) ==
  /\ calls[id].pc = "awaiting"
  /\ \E outcome \in outcomeSet :
       calls' = [calls EXCEPT ![id] =
                   [@ EXCEPT !.pc = SettledAs(resume(calls[id], outcome)),
                             !.outcome = outcome,
                             !.result = resume(calls[id], outcome)]]
  /\ UNCHANGED client

\* the caller has taken the settled promise's value: the slot is free again
release(id) ==
  /\ calls[id].pc \in {"fulfilled", "rejected"}
  /\ calls' = [calls EXCEPT ![id] = IdleCall]
  /\ UNCHANGED client

\* one caller at a time, every input
Next ==
  \/ new(CtorOptions)
  \/ lookup(1, LookupInputs, LookupOptions)
  \/ bulkLookup(1, BulkOptions)
  \/ settle(1, FewOutcomes)
  \/ release(1)

Spec == Init /\ [][Next]_vars

ValidAddress == Str(<<"8",".","8",".","8",".","8">>)

MapCtorOptions ==
  { Obj([apiKey |-> Str(<<"t","e","s","t","-","a","p","i","-","k","e","y">>)]),
    Obj([apiKey |-> Str(<<"t","e","s","t","-","a","p","i","-","k","e","y">>), baseURL |-> Str(<<"h","t","t","p","s",":","/","/","c","u","s","t","o","m",".","a","p","i",".","c","o","m">>), timeout |-> Num(5000)]),
    Obj([apiKey |-> Str(<<"t","e","s","t","-","a","p","i","-","k","e","y">>), timeout |-> Num(0)]),
    Obj([apiKey |-> Str(<<"t","e","s","t","-","a","p","i","-","k","e","y">>), baseURL |-> Str(<<>>)]),
    Obj([apiKey |-> Str(<<>>), baseURL |-> Str(<<"h","t","t","p","s",":","/","/","c","u","s","t","o","m",".","a","p","i",".","c","o","m">>), timeout |-> Num(5000)]),
    Obj([baseURL |-> Str(<<"h","t","t","p","s",":","/","/","c","u","s","t","o","m",".","a","p","i",".","c","o","m">>)]),
    Undef }

\* one caller at a time, one valid input, every failure of the transport
NextMap ==
  \/ new(MapCtorOptions)
  \/ lookup(1, {ValidAddress}, {Undef})
  \/ bulkLookup(1, {Obj([ips |-> Arr(<<ValidAddress>>)])})
  \/ settle(1, ManyFailures)
  \/ release(1)

SpecMap == Init /\ [][NextMap]_vars

\* the inputs and outcomes drawn under SpecConc, where the calls overlap
ConcAddresses == {ValidAddress, Str(<<" ",":",":","1"," ">>), Str(<<"b","a","d">>), Str(<<"8",".","8",".","8",".","8","\n">>)}

ConcBulkOptions ==
  { Obj([ips |-> Arr(<<ValidAddress, Str(<<" ",":",":","1"," ">>)>>)]),
    Obj([ips |-> Arr(<<ValidAddress, Str(<<"b","a","d">>)>>)]) }

ConcOutcomes ==
  { Resolved(Obj([status |-> Num(200), data |-> GeoRecord])),
    Resolved(Obj([status |-> Num(200), data |-> Obj([results |-> Arr(<<ItemSuccess, ItemError>>)])])),
    Rejected(Obj([isAxiosError |-> Bool(TRUE), response |-> Undef])),
    Rejected(Obj([isAxiosError |-> Bool(TRUE),
                  response |-> Obj([status |-> Num(429), data |-> Undef])])) }

\* any number of callers up to MaxCalls, their calls in flight together and
\* settled by the transport in any order
NextConc ==
  \/ new({Obj([apiKey |-> Str(<<"t","e","s","t","-","a","p","i","-","k","e","y">>)])})
  \/ \E id \in CallIds : lookup(id, ConcAddresses, {Undef, Obj([include |-> Obj([asn |-> Bool(TRUE)])])})
  \/ \E id \in CallIds : bulkLookup(id, ConcBulkOptions)
  \/ \E id \in CallIds : settle(id, ConcOutcomes)
  \/ \E id \in CallIds : release(id)

SpecConc == Init /\ [][NextConc]_vars

\* the inputs and outcomes drawn under SpecFair: those of SpecConc, a call
\* without its options object, and an error body whose `error` is a number
FairBulkOptions == ConcBulkOptions \cup {Undef}

FairOutcomes ==
  ConcOutcomes
    \cup { Rejected(Obj([isAxiosError |-> Bool(TRUE),
                         response |-> Obj([status |-> Num(400),
                                           data |-> Obj([error |-> Num(5)])])])) }

NextFair ==
  \/ new({Obj([apiKey |-> Str(<<"t","e","s","t","-","a","p","i","-","k","e","y">>)])})
  \/ \E id \in CallIds : lookup(id, ConcAddresses, {Undef})
  \/ \E id \in CallIds : bulkLookup(id, FairBulkOptions)
  \/ \E id \in CallIds : settle(id, FairOutcomes)
  \/ \E id \in CallIds : release(id)

\* the transport settles every request it was given, with a response, an
\* error or a timeout: the promise of every await is settled in the end
TransportSettles == \A id \in CallIds : WF_vars(settle(id, FairOutcomes))

SpecFair == Init /\ [][NextFair]_vars /\ TransportSettles

(***************************************************************************)
(* The validator applied on its own, to candidates built from segments.    *)
(***************************************************************************)
\* this.isValidIP(ip), called for some candidate of the set
validate(id, ipSet) ==
  /\ client.state = "ready"
  /\ calls[id].pc = "idle"
  /\ \E ip \in ipSet :
       calls' = [calls EXCEPT ![id] =
                   Started("isValidIP", <<ip>>, Done(Return(Bool(isValidIP(ip.s)))))]
  /\ UNCHANGED client

\* the segments a dotted candidate is put together from
Numerals ==
  { <<"0">>, <<"1">>, <<"9">>, <<"0","0">>, <<"0","1">>, <<"1","0">>, <<"9","9">>,
    <<"0","0","0">>, <<"0","0","1">>, <<"0","9","9">>, <<"1","0","0">>, <<"1","9","9">>,
    <<"2","0","0">>, <<"2","4","9">>, <<"2","5","0">>, <<"2","5","5">>, <<"2","5","6">>,
    <<"2","6","0">>, <<"2","9","9">>, <<"3","0","0">>, <<"9","9","9">>,
    <<"0","0","0","1">>, <<"1","0","0","0">> }

OtherSegments ==
  { <<>>, <<"a">>, <<"1","a">>, <<" ","1">>, <<"1"," ">>, <<"-","1">>, <<"+","1">>,
    <<"1","\n">>, <<"1","\t">> }

RECURSIVE SequencesUpTo(_, _)
\* the sequences of at most n elements of S
SequencesUpTo(S, n) ==
  IF n = 0 THEN {<<>>}
  ELSE LET Q == SequencesUpTo(S, n - 1) IN Q \cup {Append(q, e) : q \in Q, e \in S}

\* dotted candidates: four segments of which one varies, and any number of
\* plain segments up to MaxSegments
DottedCandidates ==
  {join([i \in 1..4 |-> IF i = k THEN a ELSE f[i]], <<".">>) :
     k \in 1..4, a \in Numerals \cup OtherSegments, f \in [1..4 -> {<<"0">>, <<"2","5","5">>}]}
    \cup {join(q, <<".">>) : q \in SequencesUpTo({<<"1">>, <<"2","5","5">>, <<>>}, MaxSegments)}

\* the first group and the tail a colon-separated candidate is given
FirstGroups == {<<"1">>, <<"f","e","8","0">>, <<"g">>, <<"1","2","3","4","5">>, <<"0","D","b","8">>}

Tails == {<<>>, <<"%","e">>, <<"g">>, <<" ">>, <<":">>}

\* n groups, the first one `first` and the others "1", separated by ":" and,
\* at the positions of D (0 before the first group, n after the last), by
\* "::", then the tail
ColonCandidate(n, D, first, tail) ==
  LET sep(j) == IF j \in D THEN <<":",":">> ELSE IF j \in {0, n} THEN <<>> ELSE <<":">>
      build[i \in 0..n] ==
        IF i = 0 THEN sep(0)
        ELSE build[i - 1] \o (IF i = 1 THEN first ELSE <<"1">>) \o sep(i)
  IN build[n] \o tail

\* colon-separated candidates of up to MaxGroups groups holding at most two
\* "::" separators
ColonCandidates ==
  {ColonCandidate(n, D, first, tail) :
     n \in 0..MaxGroups, D \in {E \in SUBSET (0..MaxGroups) : Cardinality(E) <= 2},
     first \in FirstGroups, tail \in Tails}

\* candidates with a dotted tail after a colon-separated prefix
MappedCandidates ==
  {prefix \o join([i \in 1..4 |-> IF i = k THEN a ELSE f[i]], <<".">>) :
     prefix \in {<<":",":","f","f","f","f",":">>, <<":",":">>, <<":",":","f","f","f","f",":","0",":">>,
                 <<"1",":",":">>, <<":",":","F","F","F","F",":">>, <<":",":",":","f","f","f","f",":">>,
                 <<":",":","f","f","f","f">>},
     k \in {1, 4},
     a \in Numerals \cup {<<>>, <<"a">>},
     f \in {<<<<"1","9","2">>, <<"0">>, <<"2">>, <<"1">>>>, <<<<"2","5","5">>, <<"2","5","5">>, <<"2","5","5">>, <<"2","5","5">>>>}}

ValidatorInputs ==
  {Str(s) : s \in DottedCandidates \cup ColonCandidates \cup MappedCandidates
                    \cup AddressLiterals}

\* one client, the validator applied to every candidate
NextValidator ==
  \/ new({Obj([apiKey |-> Str(<<"t","e","s","t","-","a","p","i","-","k","e","y">>)])})
  \/ validate(1, ValidatorInputs)
  \/ release(1)

SpecValidator == Init /\ [][NextValidator]_vars

(***************************************************************************)
(* What the claims speak of, stated apart from the methods' own code.      *)
(***************************************************************************)
ControlChars == {"\n", "\r", "\t", NUL}

HasControl(s) == \E i \in DOMAIN s : s[i] \in ControlChars

\* s has w as a substring, letter case counting
Contains(s, w) == \E i \in 1..Len(s) : \E j \in i..Len(s) : SubSeq(s, i, j) = w

LowerChar(c) ==
  IF \E i \in DOMAIN UpperLetters : UpperLetters[i] = c
    THEN LowerLetters[CHOOSE i \in DOMAIN UpperLetters : UpperLetters[i] = c]
    ELSE c

\* String.prototype.toLowerCase
LowerCase(s) == [i \in DOMAIN s |-> LowerChar(s[i])]

\* a lookup argument that local validation must reject
FailsLookupValidation(ip) ==
  \/ ip.t # "string"
  \/ ip.s = <<>>
  \/ HasControl(ip.s)
  \/ ~isValidIP(trim(ip.s))

\* an entry of `ips` that client-side validation must reject
EntryFails(e) == e.t # "string" \/ HasControl(e.s) \/ ~isValidIP(trim(e.s))

Called(c, op) == c.op = op /\ c.pc # "idle"

\* the call has returned (its promise is fulfilled with) an error Result
ReturnedError(c) == c.pc = "fulfilled" /\ c.result.c = "return" /\ ~c.result.v.ok

ReturnedErrorOf(c, type, message) ==
  /\ ReturnedError(c)
  /\ c.result.v.error.type = type
  /\ c.result.v.error.message = Str(message)

\* the `ips` argument of a bulkLookup call that was given an options object
IpsOf(c) == Get(c.args[1], "ips")

\* the call's transport request failed with a value the transport's predicate
\* classifies as a transport error
FailedInTransport(c) ==
  /\ c.outcome.kind = "reject"
  /\ c.outcome.value.t = "object"
  /\ Get(c.outcome.value, "isAxiosError") = Bool(TRUE)

\* the response, status, body and `error` field of the failure of call c
ResponseOf(c) == Get(c.outcome.value, "response")
StatusOf(c) == OptGet(ResponseOf(c), "status")
BodyOf(c) == OptGet(ResponseOf(c), "data")
ErrorFieldOf(c) == OptGet(BodyOf(c), "error")

StatusRuled == {Num(401), Num(429), Num(500)}

\* the failure is a transport error with a response outside the status rules
\* whose body carries an `error` text
HasErrorText(c) ==
  /\ FailedInTransport(c)
  /\ ~Nullish(ResponseOf(c))
  /\ StatusOf(c) \notin StatusRuled
  /\ ErrorFieldOf(c).t = "string"

\* the kind the fixed order of rules gives a text
KindOfText(s) ==
  IF Contains(s, <<"i","n","v","a","l","i","d">>) /\ Contains(s, <<"i","p">>) THEN "INVALID_IP_ADDRESS"
  ELSE IF Contains(s, <<"r","e","s","e","r","v","e","d">>) THEN "RESERVED_IP_ADDRESS"
  ELSE IF Contains(s, <<"g","e","o","l","o","c","a","t","i","o","n">>) \/ Contains(s, <<"n","o","t"," ","f","o","u","n","d">>) THEN "GEOLOCATION_NOT_FOUND"
  ELSE IF Contains(s, <<"a","p","i"," ","k","e","y">>) THEN "NO_API_KEY_PROVIDED"
  ELSE IF Contains(s, <<"i","n","p","u","t">>) THEN "INVALID_INPUT"
  ELSE "UNKNOWN_ERROR"

\* how many of the classification rules a text satisfies
RulesMet(s) ==
  Cardinality({k \in 1..5 :
    \/ k = 1 /\ Contains(s, <<"i","n","v","a","l","i","d">>) /\ Contains(s, <<"i","p">>)
    \/ k = 2 /\ Contains(s, <<"r","e","s","e","r","v","e","d">>)
    \/ k = 3 /\ (Contains(s, <<"g","e","o","l","o","c","a","t","i","o","n">>) \/ Contains(s, <<"n","o","t"," ","f","o","u","n","d">>))
    \/ k = 4 /\ Contains(s, <<"a","p","i"," ","k","e","y">>)
    \/ k = 5 /\ Contains(s, <<"i","n","p","u","t">>)})

\* the failure of call c with the text of its `error` field put in lower case
LowerCased(c) ==
  Rejected(Obj([isAxiosError |-> Bool(TRUE),
                response |-> Obj([status |-> StatusOf(c),
                                  statusText |-> OptGet(ResponseOf(c), "statusText"),
                                  data |-> Obj([error |-> Str(LowerCase(ErrorFieldOf(c).s))])])]))

(***************************************************************************)
(* The claims.                                                             *)
(***************************************************************************)

\* C1: a lookup whose input fails local validation (not a string, empty,
\* holding a control character, or rejected by the validator once trimmed)
\* sends no transport request and returns an error Result.
C1_InvalidLookupSendsNothing ==
  \A id \in CallIds :
    LET c == calls[id]
    IN (Called(c, "lookup") /\ FailsLookupValidation(c.args[1]))
         => (c.sent = 0 /\ c.request = NoRequest /\ ReturnedError(c))

\* a lookup of a string that only its control character makes invalid has
\* returned without a request
C1_Witness ==
  \E id \in CallIds :
    LET c == calls[id]
    IN /\ Called(c, "lookup")
       /\ c.args[1].t = "string"
       /\ HasControl(c.args[1].s)
       /\ isValidIP(trim(c.args[1].s))
       /\ c.sent = 0
       /\ ReturnedError(c)

\* C2 (as stated): a bulkLookup whose `ips` array has at least one entry that
\* fails validation returns an INVALID_IP_ADDRESS error and sends no request.
C2_AnyInvalidEntryIsInvalidIP ==
  \A id \in CallIds :
    LET c == calls[id]
    IN (/\ Called(c, "bulkLookup")
        /\ ~Nullish(c.args[1])
        /\ IpsOf(c).t = "array"
        /\ \E e \in Range(IpsOf(c).a) : EntryFails(e))
         => (c.sent = 0 /\ ReturnedError(c) /\ c.result.v.error.type = "INVALID_IP_ADDRESS")

\* C2 (amended): a bulkLookup whose `ips` array has at least one entry that
\* fails validation sends no request and returns an error, which is
\* INVALID_IP_ADDRESS when the array has at most 500 entries.
C2_InvalidEntryStopsBatch ==
  \A id \in CallIds :
    LET c == calls[id]
    IN (/\ Called(c, "bulkLookup")
        /\ ~Nullish(c.args[1])
        /\ IpsOf(c).t = "array"
        /\ \E e \in Range(IpsOf(c).a) : EntryFails(e))
         => /\ c.sent = 0
            /\ c.request = NoRequest
            /\ ReturnedError(c)
            /\ Len(IpsOf(c).a) <= 500 => c.result.v.error.type = "INVALID_IP_ADDRESS"

\* a batch of a valid and an invalid entry has been rejected without a request
C2_Witness ==
  \E id \in CallIds :
    LET c == calls[id]
    IN /\ Called(c, "bulkLookup")
       /\ ~Nullish(c.args[1])
       /\ IpsOf(c).t = "array"
       /\ \E e \in Range(IpsOf(c).a) : EntryFails(e)
       /\ \E e \in Range(IpsOf(c).a) : ~EntryFails(e)
       /\ c.sent = 0
       /\ ReturnedError(c)
       /\ c.result.v.error.type = "INVALID_IP_ADDRESS"

\* C3: the promise of lookup and of bulkLookup is never rejected, whatever
\* the arguments and whatever the transport's outcome.
C3_NeverRejects ==
  \A id \in CallIds : calls[id].pc # "rejected"

\* C4: a transport error with status 401, 429 or 500 gives UNAUTHORIZED,
\* QUOTA_EXCEEDED or INTERNAL_SERVER_ERROR with the canned message, in both
\* methods and whatever the body's `error` field holds.
C4_StatusRuleWins ==
  \A id \in CallIds :
    LET c == calls[id]
    IN (FailedInTransport(c) /\ ~Nullish(ResponseOf(c)))
         => /\ StatusOf(c) = Num(401) => ReturnedErrorOf(c, "UNAUTHORIZED", MsgUnauthorized)
            /\ StatusOf(c) = Num(429) => ReturnedErrorOf(c, "QUOTA_EXCEEDED", MsgQuota)
            /\ StatusOf(c) = Num(500) => ReturnedErrorOf(c, "INTERNAL_SERVER_ERROR", MsgInternal)

\* a bulkLookup failed with status 429 and a body whose text another rule
\* would classify, and returned QUOTA_EXCEEDED
C4_Witness ==
  \E id \in CallIds :
    LET c == calls[id]
    IN /\ Called(c, "bulkLookup")
       /\ FailedInTransport(c)
       /\ StatusOf(c) = Num(429)
       /\ ErrorFieldOf(c).t = "string"
       /\ KindOfText(ErrorFieldOf(c).s) = "RESERVED_IP_ADDRESS"
       /\ ReturnedErrorOf(c, "QUOTA_EXCEEDED", MsgQuota)

\* C5: a failure the transport's predicate does not classify as a transport
\* error gives UNKNOWN_ERROR, "An unexpected error occurred" and the raw
\* failure as details, even when it carries a response.
C5_UnclassifiedIsUnknown ==
  \A id \in CallIds :
    LET c == calls[id]
    IN (c.outcome.kind = "reject" /\ ~FailedInTransport(c))
         => /\ ReturnedErrorOf(c, "UNKNOWN_ERROR", MsgUnexpected)
            /\ c.result.v.error.details = c.outcome.value

\* an unclassified failure that carries a 401 response with an error text
\* has been mapped to UNKNOWN_ERROR
C5_Witness ==
  \E id \in CallIds :
    LET c == calls[id]
    IN /\ c.outcome.kind = "reject"
       /\ ~FailedInTransport(c)
       /\ c.outcome.value.t = "object"
       /\ StatusOf(c) = Num(401)
       /\ ErrorFieldOf(c).t = "string"
       /\ ReturnedErrorOf(c, "UNKNOWN_ERROR", MsgUnexpected)

\* C6: a transport error with no response, or with a response outside the
\* status rules whose body carries no `error` text, gives NETWORK_ERROR,
\* "Network error occurred" and details {status, statusText}.
C6_NoTextIsNetworkError ==
  \A id \in CallIds :
    LET c == calls[id]
    IN (/\ FailedInTransport(c)
        /\ \/ Nullish(ResponseOf(c))
           \/ StatusOf(c) \notin StatusRuled /\ ErrorFieldOf(c).t # "string")
         => /\ ReturnedErrorOf(c, "NETWORK_ERROR", MsgNetwork)
            /\ c.result.v.error.details =
                 Obj([status |-> StatusOf(c), statusText |-> OptGet(ResponseOf(c), "statusText")])

\* C7: two error texts that differ only in letter case get the same kind:
\* the kind returned for a text is the kind returned for it in lower case.
C7_CaseInsensitive ==
  \A id \in CallIds :
    LET c == calls[id]
    IN (HasErrorText(c) /\ ErrorFieldOf(c).s # <<>> /\ ReturnedError(c))
         => c.result.v.error.type = resume(c, LowerCased(c)).v.error.type

\* C8: the kind of a classified text is that of the first rule it satisfies,
\* in the order invalid+ip, reserved, geolocation / not found, api key,
\* input, and UNKNOWN_ERROR when it satisfies none.
C8_FirstRuleDecides ==
  \A id \in CallIds :
    LET c == calls[id]
    IN (HasErrorText(c) /\ ErrorFieldOf(c).s # <<>>)
         => (ReturnedError(c) /\ c.result.v.error.type = KindOfText(ErrorFieldOf(c).s))

\* a text that satisfies two rules has been given the kind of the earlier one
C8_Witness ==
  \E id \in CallIds :
    LET c == calls[id]
    IN /\ HasErrorText(c)
       /\ RulesMet(ErrorFieldOf(c).s) >= 2
       /\ Contains(ErrorFieldOf(c).s, <<"a","p","i"," ","k","e","y">>)
       /\ Contains(ErrorFieldOf(c).s, <<"i","n","p","u","t">>)
       /\ ReturnedError(c)
       /\ c.result.v.error.type = "NO_API_KEY_PROVIDED"

\* C9 (as stated): for every `error` text of a response outside the status
\* rules, the returned message is that text and the details are the body.
C9_AnyTextVerbatim ==
  \A id \in CallIds :
    LET c == calls[id]
    IN HasErrorText(c)
         => /\ ReturnedError(c)
            /\ c.result.v.error.message = ErrorFieldOf(c)
            /\ c.result.v.error.details = BodyOf(c)

\* C9 (amended): for every non-empty `error` text of a response outside the
\* status rules, the returned message is that text and the details are the
\* body, whichever kind the text gets.
C9_TextVerbatim ==
  \A id \in CallIds :
    LET c == calls[id]
    IN (HasErrorText(c) /\ ErrorFieldOf(c).s # <<>>)
         => /\ ReturnedError(c)
            /\ c.result.v.error.message = ErrorFieldOf(c)
            /\ c.result.v.error.details = BodyOf(c)

\* a text no rule matches has been returned verbatim under UNKNOWN_ERROR
C9_Witness ==
  \E id \in CallIds :
    LET c == calls[id]
    IN /\ Called(c, "lookup")
       /\ HasErrorText(c)
       /\ ErrorFieldOf(c).s # <<>>
       /\ ReturnedError(c)
       /\ c.result.v.error.type = "UNKNOWN_ERROR"
       /\ c.result.v.error.message = ErrorFieldOf(c)

\* C10: lookup's checks run in order and the first that fails decides: an
\* empty (falsy) address gives INVALID_INPUT "IP address is required";
\* otherwise a non-string gives INVALID_INPUT "IP address must be a string";
\* only a non-empty string reaches the control-character and validator
\* checks, which answer INVALID_IP_ADDRESS or let the call go on.
C10_FirstFailingCheckDecides ==
  \A id \in CallIds :
    LET c == calls[id]
        ip == c.args[1]
    IN Called(c, "lookup")
         => /\ ~Truthy(ip) => (c.sent = 0 /\ c.result = Return(ErrPlain("INVALID_INPUT", Str(MsgIPRequired))))
            /\ (Truthy(ip) /\ ip.t # "string")
                 => (c.sent = 0 /\ c.result = Return(ErrPlain("INVALID_INPUT", Str(MsgIPNotString))))
            /\ (Truthy(ip) /\ ip.t = "string" /\ (HasControl(ip.s) \/ ~isValidIP(trim(ip.s))))
                 => (c.sent = 0
                       /\ c.result = Return(ErrPlain("INVALID_IP_ADDRESS", Str(MsgInvalidFormat \o ip.s))))
            /\ (Truthy(ip) /\ ip.t = "string" /\ ~HasControl(ip.s) /\ isValidIP(trim(ip.s)))
                 => (c.sent = 1 \/ c.args[2].t = "null")

\* a value that is both empty and not a string has been answered with
\* "IP address is required"
C10_Witness ==
  \E id \in CallIds :
    LET c == calls[id]
    IN /\ Called(c, "lookup")
       /\ c.args[1].t \in {"number", "null", "undefined", "boolean"}
       /\ ~Truthy(c.args[1])
       /\ c.result = Return(ErrPlain("INVALID_INPUT", Str(MsgIPRequired)))

\* C11: a lookup of a string holding \n, \r, \t or NUL anywhere, the
\* positions trimming would remove included, returns INVALID_IP_ADDRESS; and
\* every lookup rejected at the control-character or the validator step has
\* the message "Invalid IP address format: " followed by the input as given.
C11_ControlCharsAndEcho ==
  \A id \in CallIds :
    LET c == calls[id]
        ip == c.args[1]
    IN (Called(c, "lookup") /\ ip.t = "string")
         => /\ HasControl(ip.s)
                 => (ReturnedError(c) /\ c.result.v.error.type = "INVALID_IP_ADDRESS")
            /\ (ip.s # <<>> /\ (HasControl(ip.s) \/ ~isValidIP(trim(ip.s))))
                 => ReturnedErrorOf(c, "INVALID_IP_ADDRESS", MsgInvalidFormat \o ip.s)

\* an input without control characters that differs from its trimmed form
\* and fails the validator has been echoed as given
C11_Witness ==
  \E id \in CallIds :
    LET c == calls[id]
        ip == c.args[1]
    IN /\ Called(c, "lookup")
       /\ ip.t = "string"
       /\ ~HasControl(ip.s)
       /\ trim(ip.s) # ip.s
       /\ trim(ip.s) # <<>>
       /\ ~isValidIP(trim(ip.s))
       /\ ReturnedErrorOf(c, "INVALID_IP_ADDRESS", MsgInvalidFormat \o ip.s)

\* the flag of an `include` value is requested
Requested(include, flag) == ~Nullish(include) /\ Truthy(Get(include, flag))

\* the query parameters the requested flags call for
FieldsOf(include) ==
  IF Requested(include, "asn") /\ Requested(include, "isp")
    THEN {<<"fields", <<"a","s","n",",","i","s","p">>>>}
  ELSE IF Requested(include, "asn") THEN {<<"fields", <<"a","s","n">>>>}
  ELSE IF Requested(include, "isp") THEN {<<"fields", <<"i","s","p">>>>}
  ELSE {}

\* the `include` value a call was given, undefined when it was given none
IncludeOf(c) ==
  IF c.op = "lookup" THEN OptGet(c.args[2], "include") ELSE OptGet(c.args[1], "include")

\* a lookup argument that passes every local check
PassesLookupValidation(ip) ==
  ip.t = "string" /\ ip.s # <<>> /\ ~HasControl(ip.s) /\ isValidIP(trim(ip.s))

\* requested or `include` is absent.
C13_FieldsParameter ==
  \A id \in CallIds :
    LET c == calls[id]
    IN (c.pc # "idle" /\ c.sent = 1)
         => /\ c.request.params = FieldsOf(IncludeOf(c))
            /\ (~Requested(IncludeOf(c), "asn") /\ ~Requested(IncludeOf(c), "isp"))
                 => c.request.params = {}

\* a bulk request has been sent with both flags, asn first
C13_Witness ==
  \E id \in CallIds :
    LET c == calls[id]
    IN /\ Called(c, "bulkLookup")
       /\ c.sent = 1
       /\ Requested(IncludeOf(c), "asn")
       /\ Requested(IncludeOf(c), "isp")
       /\ c.request.params = {<<"fields", <<"a","s","n",",","i","s","p">>>>}

\* every entry of an `ips` array passes the per-entry validation
AllEntriesPass(ips) == \A e \in Range(ips.a) : ~EntryFails(e)

\* C14: bulkLookup checks in the order not an array, empty array, more than
\* 500 entries, per-entry validation, and the first failing check decides: an
\* array of 501 or more entries gives INVALID_INPUT "Maximum of 500 IPs per
\* request allowed" whatever its entries, and an array of exactly 500 valid
\* entries passes validation and is sent.
C14_BulkChecksInOrder ==
  \A id \in CallIds :
    LET c == calls[id]
        ips == IpsOf(c)
    IN (Called(c, "bulkLookup") /\ ~Nullish(c.args[1]))
         => /\ ips.t # "array"
                 => (c.sent = 0 /\ c.result = Return(ErrPlain("INVALID_INPUT", Str(MsgNotArray))))
            /\ (ips.t = "array" /\ Len(ips.a) = 0)
                 => (c.sent = 0 /\ c.result = Return(ErrPlain("INVALID_INPUT", Str(MsgAtLeastOne))))
            /\ (ips.t = "array" /\ Len(ips.a) >= 501)
                 => (c.sent = 0 /\ c.result = Return(ErrPlain("INVALID_INPUT", Str(MsgMaximum))))
            /\ (ips.t = "array" /\ Len(ips.a) \in 1..500 /\ ~AllEntriesPass(ips))
                 => (c.sent = 0 /\ ReturnedError(c) /\ c.result.v.error.type = "INVALID_IP_ADDRESS")
            /\ (ips.t = "array" /\ Len(ips.a) \in 1..500 /\ AllEntriesPass(ips))
                 => (c.sent = 1 /\ c.request.method = "POST")

\* an array of 501 invalid entries has been answered by the length check
C14_Witness ==
  \E id \in CallIds :
    LET c == calls[id]
        ips == IpsOf(c)
    IN /\ Called(c, "bulkLookup")
       /\ ~Nullish(c.args[1])
       /\ ips.t = "array"
       /\ Len(ips.a) = 501
       /\ \A e \in Range(ips.a) : EntryFails(e)
       /\ c.sent = 0
       /\ c.result = Return(ErrPlain("INVALID_INPUT", Str(MsgMaximum)))

RECURSIVE FailingEntries(_)
\* the subsequence of an array made of the entries validation must reject
FailingEntries(a) ==
  IF a = <<>> THEN <<>>
  ELSE (IF EntryFails(Head(a)) THEN <<Head(a)>> ELSE <<>>) \o FailingEntries(Tail(a))

RECURSIVE Listed(_)
\* the entries of a list as text, separated by ", "
Listed(a) ==
  IF a = <<>> THEN <<>>
  ELSE IF Len(a) = 1 THEN stringOf(a[1])
  ELSE stringOf(a[1]) \o <<",", " ">> \o Listed(Tail(a))

\* C15: when bulkLookup rejects entries, details.invalidIPs is the
\* subsequence of `ips` made of the entries that are not strings, hold a
\* control character before trimming or fail the validator after it, in the
\* input's order and with its duplicates, no valid entry among them, and the
\* message is "Invalid IP addresses found: " plus that list joined by ", ".
C15_InvalidIPsSubsequence ==
  \A id \in CallIds :
    LET c == calls[id]
        ips == IpsOf(c)
    IN (/\ Called(c, "bulkLookup")
        /\ ~Nullish(c.args[1])
        /\ ips.t = "array"
        /\ Len(ips.a) \in 1..500
        /\ ~AllEntriesPass(ips))
         => /\ c.sent = 0
            /\ c.result = Return(Err("INVALID_IP_ADDRESS",
                                     Str(MsgInvalidFound \o Listed(FailingEntries(ips.a))),
                                     Obj([invalidIPs |-> Arr(FailingEntries(ips.a))])))
            /\ \A e \in Range(c.result.v.error.details.f.invalidIPs.a) : EntryFails(e)

\* the same invalid entry given twice has been reported twice
C15_Witness ==
  \E id \in CallIds :
    LET c == calls[id]
        ips == IpsOf(c)
    IN /\ Called(c, "bulkLookup")
       /\ ~Nullish(c.args[1])
       /\ ips.t = "array"
       /\ Len(ips.a) = 2
       /\ ips.a[1] = ips.a[2]
       /\ EntryFails(ips.a[1])
       /\ ReturnedError(c)
       /\ c.result.v.error.details = Obj([invalidIPs |-> Arr(<<ips.a[1], ips.a[1]>>)])

\* C16: when every entry is valid, bulkLookup POSTs to "/bulk-lookup" a body
\* {ips: L} where L is as long as the input and its i-th element is the i-th
\* entry trimmed: duplicates stay, nothing is reordered.
C16_BodyOfTrimmedEntries ==
  \A id \in CallIds :
    LET c == calls[id]
        ips == IpsOf(c)
    IN (/\ Called(c, "bulkLookup")
        /\ ~Nullish(c.args[1])
        /\ ips.t = "array"
        /\ Len(ips.a) \in 1..500
        /\ AllEntriesPass(ips))
         => /\ c.sent = 1
            /\ c.request.method = "POST"
            /\ c.request.url = BulkPath
            /\ DOMAIN c.request.body.f = {"ips"}
            /\ c.request.body.f.ips.t = "array"
            /\ Len(c.request.body.f.ips.a) = Len(ips.a)
            /\ \A i \in DOMAIN ips.a : c.request.body.f.ips.a[i] = Str(trim(ips.a[i].s))

\* the same whitespace-wrapped address given twice has been sent twice, trimmed
C16_Witness ==
  \E id \in CallIds :
    LET c == calls[id]
        ips == IpsOf(c)
    IN /\ Called(c, "bulkLookup")
       /\ ~Nullish(c.args[1])
       /\ ips.t = "array"
       /\ Len(ips.a) = 2
       /\ ips.a[1] = ips.a[2]
       /\ ~EntryFails(ips.a[1])
       /\ trim(ips.a[1].s) # ips.a[1].s
       /\ c.sent = 1
       /\ c.request.body = Obj([ips |-> Arr(<<Str(trim(ips.a[1].s)), Str(trim(ips.a[1].s))>>)])

\* the transport answered the call's request with a response
Answered(c) == c.pc # "idle" /\ c.outcome.kind = "resolve"

\* the body of the response the transport answered with
AnswerBody(c) == OptGet(c.outcome.value, "data")

\* the body of the response holds a `results` field that is an array
HasResultsArray(c) == OptGet(AnswerBody(c), "results").t = "array"

\* C17: when the transport answers a bulk request with a response whose body
\* holds no `results` array (no such field, a field of another type, or no
\* body at all), bulkLookup returns INTERNAL_SERVER_ERROR "Invalid response
\* format from API", never NETWORK_ERROR or UNKNOWN_ERROR.
C17_BadShapeIsServerError ==
  \A id \in CallIds :
    LET c == calls[id]
    IN (Called(c, "bulkLookup") /\ Answered(c) /\ ~HasResultsArray(c))
         => ReturnedErrorOf(c, "INTERNAL_SERVER_ERROR", MsgBadFormat)

\* C18: on transport success the payload is handed over as it came: lookup
\* returns ok with data equal to the response body whatever it holds, and
\* bulkLookup returns ok with data equal to the `results` array of the body,
\* the same items in the same order, items of status "error", an empty array
\* or a length other than the request's included.
C18_PayloadPassedThrough ==
  \A id \in CallIds :
    LET c == calls[id]
    IN /\ (Called(c, "lookup") /\ Answered(c))
            => (c.pc = "fulfilled" /\ c.result = Return(Ok(AnswerBody(c))))
       /\ (Called(c, "bulkLookup") /\ Answered(c) /\ HasResultsArray(c))
            => /\ c.pc = "fulfilled"
               /\ c.result = Return(Ok(Get(AnswerBody(c), "results")))
               /\ Len(c.result.v.data.a) = Len(Get(AnswerBody(c), "results").a)

\* a bulk call has returned more items than it asked for, an item of status
\* "error" first
C18_Witness ==
  \E id \in CallIds :
    LET c == calls[id]
    IN /\ Called(c, "bulkLookup")
       /\ Answered(c)
       /\ HasResultsArray(c)
       /\ c.result.c = "return"
       /\ c.result.v.ok
       /\ Len(c.result.v.data.a) > Len(c.request.body.f.ips.a)
       /\ Get(c.result.v.data.a[1], "status") = Str(<<"e","r","r","o","r">>)

\* the API key of the options a construction was given
KeyOf(cl) == Get(cl.options, "apiKey")

\* a construction was attempted with an options object
ConstructedWith(cl) == cl.state # "none" /\ cl.options.t = "object"

\* the key is missing: not provided, or provided as a value that `!key` takes
\* for none (the tests name "" so: "when API key is not provided")
MissingKey(key) == ~Truthy(key)

\* the construction raised an error with the message
Raised(cl, message) == cl.state = "threw" /\ cl.error.message = message

\* the kind an error carries, "none" when it carries no kind
KindOfError(e) == IF "type" \in DOMAIN e THEN e.type ELSE "none"

\* C20: a construction with an invalid configuration (API key missing, not a
\* string, or empty or only whitespace) fails with an error of kind
\* VALIDATION_ERROR.
C20_InvalidConfigIsValidationError ==
  (/\ ConstructedWith(client)
   /\ \/ MissingKey(KeyOf(client))
      \/ KeyOf(client).t # "string"
      \/ trim(KeyOf(client).s) = <<>>)
    => (client.state = "threw" /\ KindOfError(client.error) = "VALIDATION_ERROR")

\* an option of the configuration was given
Given(v) == v.t # "undefined"

\* the configuration's API key passes none of the three checks' failures
ValidKey(key) == key.t = "string" /\ trim(key.s) # <<>>

\* C21: construction is all or nothing: with an invalid configuration no
\* transport handle is created and no client exists; with a valid one a
\* transport handle is created with the given base URL or the default
\* "https://api.ipflare.io", the given timeout or the default 10000 ms, and
\* the headers X-API-Key: <key> and Content-Type: application/json.
C21_AllOrNothing ==
  client.state # "none"
    => IF client.options.t = "object" /\ ValidKey(KeyOf(client))
         THEN LET baseURL == Get(client.options, "baseURL")
                  timeout == Get(client.options, "timeout")
              IN /\ client.state = "ready"
                 /\ client.apiKey = KeyOf(client)
                 /\ client.transport.baseURL
                      = (IF Given(baseURL) THEN baseURL ELSE Str(DefaultBaseURL))
                 /\ client.transport.timeout
                      = (IF Given(timeout) THEN timeout ELSE Num(DefaultTimeout))
                 /\ client.transport.headers
                      = {<<"X-API-Key", KeyOf(client)>>,
                         <<"Content-Type", Str(<<"a","p","p","l","i","c","a","t","i","o","n","/","j","s","o","n">>)>>}
         ELSE /\ client.state = "threw"
              /\ "transport" \notin DOMAIN client
              /\ "apiKey" \notin DOMAIN client

\* the validator was applied to a candidate by call c, and its verdict
Validated(c) == c.op = "isValidIP" /\ c.pc = "fulfilled"
CandidateOf(c) == c.args[1].s
Accepts(c) == c.result = Return(Bool(TRUE))
Rejects(c) == c.result = Return(Bool(FALSE))

RECURSIVE Fields(_, _)
\* the fields of s that the character ch separates
Fields(s, ch) ==
  IF \A i \in DOMAIN s : s[i] # ch THEN <<s>>
  ELSE LET i == CHOOSE k \in DOMAIN s : s[k] = ch /\ \A j \in 1..(k - 1) : s[j] # ch
       IN <<SubSeq(s, 1, i - 1)>> \o Fields(SubSeq(s, i + 1, Len(s)), ch)

\* the number a decimal digit stands for
DigitValue(ch) == CHOOSE n \in 0..9 : DigitChars[n + 1] = ch

RECURSIVE DecimalValue(_)
\* the number a string of decimal digits stands for
DecimalValue(d) ==
  IF d = <<>> THEN 0
  ELSE 10 * DecimalValue(SubSeq(d, 1, Len(d) - 1)) + DigitValue(d[Len(d)])

\* a decimal octet: one to three digits that stand for a number in 0..255
IsOctet(f) ==
  /\ Len(f) \in 1..3
  /\ \A i \in DOMAIN f : f[i] \in Digits
  /\ DecimalValue(f) <= 255

\* exactly four octets separated by dots, nothing before or after
IsDottedQuad(s) ==
  LET f == Fields(s, ".")
  IN Len(f) = 4 /\ \A i \in DOMAIN f : IsOctet(f[i])

\* C22: the validator accepts every string of exactly four dot-separated
\* decimal octets in 0..255, and rejects every dotted string that has an octet
\* above 255, fewer or more than four segments, an empty segment or any extra
\* character.
C22_DottedQuads ==
  \A id \in CallIds :
    LET c == calls[id]
    IN Validated(c)
         => /\ IsDottedQuad(CandidateOf(c)) => Accepts(c)
            /\ (~IsDottedQuad(CandidateOf(c)) /\ \A i \in DOMAIN CandidateOf(c) : CandidateOf(c)[i] # ":")
                 => Rejects(c)

\* four segments of digits, one of them above 255, have been rejected
C22_Witness ==
  \E id \in CallIds :
    LET c == calls[id]
        f == Fields(CandidateOf(c), ".")
    IN /\ Validated(c)
       /\ Len(f) = 4
       /\ \A i \in 1..3 : IsOctet(f[i])
       /\ f[4] = <<"2","5","6">>
       /\ Rejects(c)

HexDigits == Digits \cup {"a","b","c","d","e","f","A","B","C","D","E","F"}

\* a group: one to four hexadecimal digits
IsGroup(f) == Len(f) \in 1..4 /\ \A i \in DOMAIN f : f[i] \in HexDigits

\* the positions at which "::" occurs in s
DoubleColons(s) == {i \in 1..(Len(s) - 1) : s[i] = ":" /\ s[i + 1] = ":"}

\* the groups of a colon-separated part, none when the part is empty
GroupsIn(p) == IF p = <<>> THEN <<>> ELSE Fields(p, ":")

\* the full form: eight groups
IsFullForm(s) ==
  /\ Len(Fields(s, ":")) = 8
  /\ \A i \in 1..8 : IsGroup(Fields(s, ":")[i])

\* a form with one "::" that stands for one or more groups, at the start, in
\* the middle or at the end
IsCompressedForm(s) ==
  /\ Cardinality(DoubleColons(s)) = 1
  /\ LET i == CHOOSE k \in DoubleColons(s) : TRUE
         left == GroupsIn(SubSeq(s, 1, i - 1))
         right == GroupsIn(SubSeq(s, i + 2, Len(s)))
     IN /\ \A k \in DOMAIN left : IsGroup(left[k])
        /\ \A k \in DOMAIN right : IsGroup(right[k])
        /\ Len(left) + Len(right) <= 7

\* the IPv4-mapped form: "::ffff:" and a dotted quad of octets written
\* without leading zeros
IsMappedForm(s) ==
  /\ Len(s) > 7
  /\ SubSeq(s, 1, 7) = <<":",":","f","f","f","f",":">>
  /\ LET q == SubSeq(s, 8, Len(s))
     IN /\ IsDottedQuad(q)
        /\ \A i \in 1..4 : Len(Fields(q, ".")[i]) = 1 \/ Fields(q, ".")[i][1] # "0"

IsStandardV6(s) == IsFullForm(s) \/ IsCompressedForm(s) \/ IsMappedForm(s)

\* the part of a candidate before its zone index, if it has one
BeforeZone(s) == Fields(s, "%")[1]

\* a group of the candidate holds a character that is not a hexadecimal digit
\* (the dots of a dotted tail apart)
NonHexInGroup(s) ==
  \E i \in DOMAIN BeforeZone(s) : BeforeZone(s)[i] \notin HexDigits \cup {":", "."}

\* the candidate has more than eight groups
MoreThanEightGroups(s) ==
  Cardinality({i \in DOMAIN Fields(s, ":") : Fields(s, ":")[i] # <<>>}) > 8

\* the candidate is a valid address followed by characters no address goes on
\* with
TrailingGarbage(s) ==
  \E k \in 1..(Len(s) - 1) :
    /\ s[k + 1] \notin HexDigits \cup {":", ".", "%"}
    /\ IsStandardV6(SubSeq(s, 1, k))

\* C23: the validator rejects every string that has more than one "::", more
\* than eight groups, a character that is not hexadecimal inside a group, or
\* trailing characters after a valid address.
C23_MalformedV6Rejected ==
  \A id \in CallIds :
    LET c == calls[id]
        s == CandidateOf(c)
    IN (/\ Validated(c)
        /\ \/ Cardinality(DoubleColons(s)) > 1
           \/ MoreThanEightGroups(s)
           \/ NonHexInGroup(s)
           \/ TrailingGarbage(s))
         => Rejects(c)

\* C24: the validator accepts every standard IPv6 form: the full eight-group
\* form, every form with a single "::" at the start, in the middle or at the
\* end ("::1", "fe80::1", "2001:db8::ff00:42:8329"), and the IPv4-mapped form
\* "::ffff:192.0.2.1".
C24_StandardV6Accepted ==
  \A id \in CallIds :
    LET c == calls[id]
    IN (Validated(c) /\ IsStandardV6(CandidateOf(c))) => Accepts(c)

\* a form of several groups after a leading "::" has been accepted
C24_Witness ==
  \E id \in CallIds :
    LET c == calls[id]
        s == CandidateOf(c)
    IN /\ Validated(c)
       /\ IsCompressedForm(s)
       /\ DoubleColons(s) = {1}
       /\ Len(Fields(SubSeq(s, 3, Len(s)), ":")) >= 2
       /\ Accepts(c)

\* the promise of the call is settled
Settled(c) == c.pc \in {"fulfilled", "rejected"}

\* the request of the call failed: the transport's promise was rejected
FailedRequest(c) == Settled(c) /\ c.sent = 1 /\ c.outcome.kind = "reject"

\* C26: the error mapping is one function in both operations: whatever the
\* transport call failed with, the call ends as the other operation would
\* have ended on the same failure, with the same kind, message and details.
C26_SameErrorMapping ==
  \A id \in CallIds :
    LET c == calls[id]
    IN FailedRequest(c)
         => /\ c.op = "lookup" => c.result = bulkCatch(c.outcome.value)
            /\ c.op = "bulkLookup" => c.result = lookupCatch(c.outcome.value)

\* a bulk lookup failed with a status no rule names and a text of the error
\* body that the third rule classifies
C26_Witness ==
  \E id \in CallIds :
    LET c == calls[id]
    IN /\ FailedRequest(c)
       /\ c.op = "bulkLookup"
       /\ OptGet(Get(c.outcome.value, "response"), "status") = Num(404)
       /\ ReturnedError(c)
       /\ c.result.v.error.type = "GEOLOCATION_NOT_FOUND"
       /\ c.result = lookupCatch(c.outcome.value)


\* the arguments of the call pass the local validation of its operation
PassesValidation(c) ==
  IF c.op = "lookup" THEN PassesLookupValidation(c.args[1])
  ELSE /\ ~Nullish(c.args[1])
       /\ IpsOf(c).t = "array"
       /\ Len(IpsOf(c).a) \in 1..MaxBulk
       /\ AllEntriesPass(IpsOf(c))

\* the options of the call are of the declared type: absent or an object
DeclaredOptions(c) == c.op = "lookup" => c.args[2].t # "null"

\* C27: an invocation issues at most one request: one when its arguments pass
\* local validation, none otherwise.
RequestsOfCall ==
  \A id \in CallIds :
    LET c == calls[id]
    IN c.pc # "idle"
         => /\ c.sent \in {0, 1}
            /\ c.sent = 1 <=> c.request # NoRequest
            /\ ~PassesValidation(c) => c.sent = 0
            /\ (PassesValidation(c) /\ DeclaredOptions(c)) => c.sent = 1

\* C27: the request of an invocation is issued once, when the call starts: no
\* later step of the call issues another or changes it, and a settled call,
\* failed or not, stays as it is until its slot is released.
NeverReissued ==
  \A id \in CallIds :
    /\ (calls[id].pc # "idle" /\ calls'[id].pc # "idle")
         => /\ calls'[id].sent = calls[id].sent
            /\ calls'[id].request = calls[id].request
    /\ Settled(calls[id]) => calls'[id] \in {calls[id], IdleCall}
\* the call has completed with a Result: its promise is fulfilled with one
HasResult(c) == c.pc = "fulfilled" /\ c.result.c = "return"

\* C28: provided the transport settles every request, every call completes
\* with one Result; a call is suspended only while its request is outstanding,
\* and a call whose arguments fail validation completes without waiting.
SuspendsOnlyOnOwnRequest ==
  \A id \in CallIds :
    LET c == calls[id]
    IN /\ c.pc = "awaiting" => (c.sent = 1 /\ c.request # NoRequest)
       /\ (c.pc # "idle" /\ ~PassesValidation(c)) => (c.sent = 0 /\ HasResult(c))

C28_CompletesWithResult ==
  /\ []SuspendsOnlyOnOwnRequest
  /\ \A id \in CallIds : (calls[id].pc = "awaiting") ~> HasResult(calls[id])

\* what the code does give: provided the transport settles every request, the
\* promise of every call is settled, fulfilled or rejected; a call is
\* suspended only while its request is outstanding, and a call whose
\* arguments fail validation is settled without waiting.
PromiseSettles ==
  /\ [](\A id \in CallIds :
          LET c == calls[id]
          IN /\ c.pc = "awaiting" => (c.sent = 1 /\ c.request # NoRequest)
             /\ (c.pc # "idle" /\ ~PassesValidation(c)) => (c.sent = 0 /\ Settled(c)))
  /\ \A id \in CallIds : (calls[id].pc = "awaiting") ~> Settled(calls[id])


\* C29: once constructed, the client keeps its API key, base URL, timeout,
\* headers and transport handle: they are at all times what the constructor
\* made of the options, and no step of a lookup or bulkLookup call, succeeding
\* or failing, changes them.
ConfigurationAsConstructed ==
  client.state = "ready" => client = Constructed(client.options)

ConfigurationKept == client.state = "ready" => client' = client

C29_ConfigurationImmutable ==
  []ConfigurationAsConstructed /\ [][ConfigurationKept]_vars

\* a client built with its own base URL and timeout has had a request fail,
\* and holds the configuration it was built with
C29_Witness ==
  /\ client.state = "ready"
  /\ client.transport.timeout = Num(5000)
  /\ client.transport.baseURL # Str(DefaultBaseURL)
  /\ client.apiKey = Get(client.options, "apiKey")
  /\ \E id \in CallIds : FailedRequest(calls[id]) /\ ReturnedError(calls[id])


\* the addresses the request of the call carries: the path segment of a GET,
\* the elements of the `ips` body of a POST
AddressesOnWire(c) ==
  IF c.request.method = "GET" THEN {Str(Tail(c.request.url))}
  ELSE Range(c.request.body.f.ips.a)

\* C30: every address put on the wire is a string the address validator
\* accepts, and holds no \n, \r, \t, NUL or other whitespace.
C30_OnlyValidAddressesOnWire ==
  \A id \in CallIds :
    LET c == calls[id]
    IN c.sent = 1
         => \A a \in AddressesOnWire(c) :
              /\ a.t = "string"
              /\ isValidIP(a.s)
              /\ \A i \in DOMAIN a.s : a.s[i] \notin ControlChars \cup WhiteSpace

\* a batch with an entry wrapped in whitespace has been sent, every address of
\* its body accepted by the validator and free of whitespace
C30_Witness ==
  \E id \in CallIds :
    LET c == calls[id]
    IN /\ c.sent = 1
       /\ c.op = "bulkLookup"
       /\ \E e \in Range(IpsOf(c).a) : trim(e.s) # e.s
       /\ \A a \in AddressesOnWire(c) : isValidIP(a.s) /\ trim(a.s) = a.s

====
